---- MODULE Spec2Model ----
(***************************************************************************)
(* Context Fetcher (src/main.ts): the filter helpers passesFilters and     *)
(* passesPrivacyFilter, and createContextFile as a state machine over a    *)
(* vault (files, metadata cache, resolved links).                          *)
(*                                                                         *)
(* JavaScript strings on which the code computes (trim, toLowerCase,       *)
(* substring, startsWith) are tuples of one-character strings.  File paths *)
(* are only compared, so they stay TLA+ strings.                           *)
(***************************************************************************)
EXTENDS Integers, Sequences, FiniteSets, TLC

(* ------------------------------------------------------------------------ *)
(* String primitives                                                        *)
(* ------------------------------------------------------------------------ *)

UpperChars == <<"A","B","C","D","E","F","G","H","I","J","K","L","M",
                "N","O","P","Q","R","S","T","U","V","W","X","Y","Z">>
LowerChars == <<"a","b","c","d","e","f","g","h","i","j","k","l","m",
                "n","o","p","q","r","s","t","u","v","w","x","y","z">>

\* String.prototype.toLowerCase on one character
lowerChar(c) ==
    IF \E k \in DOMAIN UpperChars : UpperChars[k] = c
    THEN LowerChars[CHOOSE k \in DOMAIN UpperChars : UpperChars[k] = c]
    ELSE c

\* String.prototype.toLowerCase
toLowerCase(s) == [i \in 1..Len(s) |-> lowerChar(s[i])]

isSpace(c) == c \in {" ", "\t", "\n"}

RECURSIVE trimStart(_)
trimStart(s) == IF s # <<>> /\ isSpace(Head(s)) THEN trimStart(Tail(s)) ELSE s

RECURSIVE trimEnd(_)
trimEnd(s) ==
    IF s # <<>> /\ isSpace(s[Len(s)]) THEN trimEnd(SubSeq(s, 1, Len(s) - 1)) ELSE s

\* String.prototype.trim
trim(s) == trimEnd(trimStart(s))

\* String.prototype.substring(1)
substring1(s) == IF s = <<>> THEN <<>> ELSE Tail(s)

\* String.prototype.startsWith
startsWith(s, p) == Len(s) >= Len(p) /\ SubSeq(s, 1, Len(p)) = p

(* ------------------------------------------------------------------------ *)
(* Values of the model's vaults and settings                                *)
(* ------------------------------------------------------------------------ *)

\* privacy levels as they are stored in the settings (trimmed, lower case)
PUBLIC == <<"p","u","b","l","i","c">>
NONE   == <<"n","o","n","e">>

\* tags as they are stored in the settings (lower case, no marker)
TAG_WIP == <<"w","i","p">>
TAG_OLD == <<"o","l","d">>

\* tags as getAllTags returns them (with the marker, in the note's spelling)
RAW_WIP   == <<"#","W","i","p">>
RAW_OLD   == <<"#","o","l","d">>
RAW_DAILY == <<"#","d","a","i","l","y">>

\* A frontmatter value: [t, v] with t the JavaScript type of the YAML value
\* and v its text.  t = "undefined": the note has no such key.
JSUndefined == [t |-> "undefined", v |-> <<>>]
JSNull      == [t |-> "null", v |-> <<>>]
JSString(s) == [t |-> "string", v |-> s]
JSNumber(n) == [t |-> "number", v |-> n]
JSNaN == [t |-> "NaN", v |-> 0]
JSBoolean(s) == [t |-> "boolean", v |-> s]

\* CachedMetadata | null, as far as the filters read it
NullCache == [isNull |-> TRUE, privacy |-> JSUndefined, tags |-> {}]
Cache(p, T) == [isNull |-> FALSE, privacy |-> p, tags |-> T]

(* ------------------------------------------------------------------------ *)
(* Filters                                                                  *)
(* ------------------------------------------------------------------------ *)

\* obsidian's parseFrontMatterEntry(frontmatter, "privacy"): the value of the
\* key, or null when there is no frontmatter or no such key
parseFrontMatterEntry(cache) ==
    IF cache.privacy.t = "undefined" THEN JSNull ELSE cache.privacy

\* typeof privacyRaw === "string" ? privacyRaw.trim().toLowerCase() : undefined
privacyValueOf(privacyRaw) ==
    IF privacyRaw.t = "string"
    THEN [defined |-> TRUE, v |-> toLowerCase(trim(privacyRaw.v))]
    ELSE [defined |-> FALSE, v |-> <<>>]

\* JavaScript truthiness of privacyValue (undefined and "" are falsy)
truthy(privacyValue) == privacyValue.defined /\ privacyValue.v # <<>>

\* getAllTags(cache).map((tag) => tag.substring(1).toLowerCase())
fileTagsOf(cache) == { toLowerCase(substring1(tag)) : tag \in cache.tags }

\* passesFilters without the required-tag check
passesFilters_TagsUnchecked(cache, s) ==
    IF cache.isNull THEN FALSE
    ELSE
      LET privacyValue == privacyValueOf(parseFrontMatterEntry(cache))
      IN  IF truthy(privacyValue)
          THEN privacyValue.v \in s.includePrivacyLevels
          ELSE NONE \in s.includePrivacyLevels

\* passesFilters reading a missing cache as metadata without frontmatter and tags
passesFilters_NullAsEmpty(cache, s) ==
    LET privacyValue == privacyValueOf(parseFrontMatterEntry(cache))
        passesPrivacy ==
            IF truthy(privacyValue)
            THEN privacyValue.v \in s.includePrivacyLevels
            ELSE NONE \in s.includePrivacyLevels
    IN  /\ passesPrivacy
        /\ s.targetTags # {} => \E fileTag \in fileTagsOf(cache) : fileTag \in s.targetTags

passesFilters(cache, s) ==
    IF cache.isNull THEN FALSE
    ELSE
      LET targetTags == s.targetTags
          mustCheckTags == targetTags # {}
          privacyRaw == parseFrontMatterEntry(cache)
          privacyValue == privacyValueOf(privacyRaw)
          allowedPrivacyLevels == s.includePrivacyLevels
          passesPrivacy ==
              IF truthy(privacyValue) /\ privacyValue.v \in allowedPrivacyLevels
              THEN TRUE
              ELSE IF ~truthy(privacyValue) /\ NONE \in allowedPrivacyLevels
              THEN TRUE
              ELSE IF privacyRaw.t = "null" /\ NONE \in allowedPrivacyLevels
              THEN TRUE
              ELSE FALSE
          hasMatchingTag == \E fileTag \in fileTagsOf(cache) : fileTag \in targetTags
      IN  IF ~passesPrivacy THEN FALSE
          ELSE IF mustCheckTags /\ ~hasMatchingTag THEN FALSE
          ELSE TRUE

passesPrivacyFilter(cache, s) ==
    IF cache.isNull THEN FALSE
    ELSE
      LET privacyRaw == parseFrontMatterEntry(cache)
          privacyValue == privacyValueOf(privacyRaw)
          allowedPrivacyLevels == s.includePrivacyLevels
      IN  IF truthy(privacyValue) /\ privacyValue.v \in allowedPrivacyLevels
          THEN TRUE
          ELSE IF ~truthy(privacyValue) /\ NONE \in allowedPrivacyLevels
          THEN TRUE
          ELSE IF privacyRaw.t = "null" /\ NONE \in allowedPrivacyLevels
          THEN TRUE
          ELSE FALSE

(* ------------------------------------------------------------------------ *)
(* The vault's files                                                        *)
(* ------------------------------------------------------------------------ *)

Paths == {"A.md", "B.md", "C.md", "D.md", "2024-01-01.md", "2024-01-02.md", "img.png"}

\* TFile.name, as characters
nameOf(p) ==
    CASE p = "A.md" -> <<"A",".","m","d">>
      [] p = "B.md" -> <<"B",".","m","d">>
      [] p = "C.md" -> <<"C",".","m","d">>
      [] p = "D.md" -> <<"D",".","m","d">>
      [] p = "2024-01-01.md" -> <<"2","0","2","4","-","0","1","-","0","1",".","m","d">>
      [] p = "2024-01-02.md" -> <<"2","0","2","4","-","0","1","-","0","2",".","m","d">>
      [] p = "img.png" -> <<"i","m","g",".","p","n","g">>

Digits == <<"0","1","2","3","4","5","6","7","8","9">>
isDigit(c) == \E k \in DOMAIN Digits : Digits[k] = c

\* /^\d{4}-\d{2}-\d{2}\.md$/.test(name)
dailyNoteRegex(name) ==
    /\ Len(name) = 13
    /\ \A i \in {1, 2, 3, 4, 6, 7, 9, 10} : isDigit(name[i])
    /\ name[5] = "-" /\ name[8] = "-"
    /\ SubSeq(name, 11, 13) = <<".","m","d">>

\* TFile.basename: the name without its extension
basenameOf(p) ==
    LET n == nameOf(p)
        dots == { i \in DOMAIN n : n[i] = "." }
        last == IF dots = {} THEN Len(n) + 1
                ELSE CHOOSE i \in dots : \A j \in dots : j <= i
    IN  SubSeq(n, 1, last - 1)

\* rank of a character in the collation of localeCompare, for the characters
\* of the file names above (digits before letters, punctuation first)
charRank(c) ==
    IF c = "-" THEN 0
    ELSE IF isDigit(c) THEN CHOOSE k \in DOMAIN Digits : Digits[k] = c
    ELSE 11 + (CHOOSE k \in DOMAIN UpperChars : lowerChar(UpperChars[k]) = lowerChar(c))

\* a.localeCompare(b) < 0
RECURSIVE localeLess(_, _)
localeLess(a, b) ==
    IF b = <<>> THEN FALSE
    ELSE IF a = <<>> THEN TRUE
    ELSE IF charRank(Head(a)) # charRank(Head(b)) THEN charRank(Head(a)) < charRank(Head(b))
    ELSE localeLess(Tail(a), Tail(b))

(* ------------------------------------------------------------------------ *)
(* State                                                                    *)
(* ------------------------------------------------------------------------ *)

VARIABLES
    \* the plugin and its host
    settings,               \* this.settings
    activeFile,             \* app.workspace.getActiveFile(): a path or NoFile
    fileKind,               \* vault.getAbstractFileByPath: "md", "other" or "none" per path
    fileCache,              \* metadataCache.getFileCache per path
    resolvedLinks,          \* metadataCache.resolvedLinks: per path, its keys in enumeration order
    unreadable,             \* the paths on which vault.read throws
    \* one run of createContextFile
    pc,                     \* where the run stands
    maxDepth,               \* const maxDepth
    content,                \* combinedContentObj.content, as its appended pieces
    contentIncludedPaths,
    traversalVisitedPaths,
    includedNotesCount,
    iteration,
    queue,
    processedLinkCandidates,
    dailyNotesToProcess,    \* the part of dailyNotesToProcess the for loop has not reached
    dailyNotesAddedCount,
    notices,                \* the Notices shown, in order
    outputFile,             \* what createOutputFile wrote: <<>> while nothing is written
    loggedError,            \* the error createOutputFile caught and logged, or NoError
    \* history of the run
    evaluated,              \* the filter calls made: [path, filter, result]
    reads,                  \* the paths vault.read was called on, in order
    dequeued,               \* the entries taken off the queue, in order
    expanded,               \* the notes whose links were enumerated for enqueueing, in order
    \* one pass of a note's text through the content helpers
    npc,                    \* where the pass stands
    fullContent,            \* what vault.read returned
    truncatedContent,       \* truncateContentAfterFirstSeparator(fullContent)
    cleanedContent,         \* removeWikiLinks(truncatedContent)
    cleanedAgain,           \* the two helpers applied to cleanedContent
    \* further invocations of the command
    parked,                 \* the frame of an invocation suspended at an await, or NoFrame
    finished,               \* the texts of the invocations that ended before this one began
    \* the preview of the settings tab
    previewList             \* what getPreviewNotes returned last, or NoPreview

vars == << settings, activeFile, fileKind, fileCache, resolvedLinks, unreadable,
           pc, maxDepth, content, contentIncludedPaths, traversalVisitedPaths,
           includedNotesCount, iteration, queue, processedLinkCandidates,
           dailyNotesToProcess, dailyNotesAddedCount, notices, outputFile, loggedError,
           evaluated, reads, dequeued, expanded,
           npc, fullContent, truncatedContent, cleanedContent, cleanedAgain,
           parked, finished, previewList >>

invocations == << parked, finished >>

preview == << previewList >>

helpers == << npc, fullContent, truncatedContent, cleanedContent, cleanedAgain >>

host == << settings, activeFile, fileKind, fileCache, resolvedLinks, unreadable >>

NoFile == "(none)"

NoError == "(no error)"

\* the preview before getPreviewNotes was ever called: a list no call returns
NoPreview == << [path |-> "(no preview)", basename |-> << >>, depth |-> 0 - 1, passes |-> FALSE] >>

NoFrame == [pc |-> "(no frame)"]

\* the safety break of the BFS loop
SafetyCeiling == 10000

(* ------------------------------------------------------------------------ *)
(* Pieces of the output text                                                *)
(* ------------------------------------------------------------------------ *)

\* One appended piece: kind is "header", "note", "heading", "placeholder" or
\* "summary"; a note piece carries its title prefix, the file, the depth
\* printed ("Linked Note" only) and whether its body is the file's cleaned
\* content, the read-error line or the skipped line.
Piece(kind, title, path, depth, body) ==
    [kind |-> kind, title |-> title, path |-> path, depth |-> depth, body |-> body]

\* the lines of the header that print settings: the privacy levels, the
\* required tags, the daily notes switch and, with the switch on, the number
\* of days (0: the line is not written)
headerSettings ==
    [includePrivacyLevels |-> settings.includePrivacyLevels,
     targetTags |-> settings.targetTags,
     includeRecentDailyNotes |-> settings.includeRecentDailyNotes,
     numberOfRecentDays |-> IF settings.includeRecentDailyNotes
                            THEN settings.numberOfRecentDays ELSE 0]

\* the header as written when the run starts
HeaderPiece(file, depth) ==
    [kind |-> "header", title |-> "Context Export", path |-> file, depth |-> depth,
     body |-> "", printed |-> headerSettings]
NotePiece(title, file, depth, body) == Piece("note", title, file, depth, body)
LinkedHeading(depth) == Piece("heading", "Linked Notes", "", depth, "")
DailyHeading(days) == Piece("heading", "Recent Daily Notes", "", days, "")
NoDailyPiece == Piece("placeholder", "No recent daily notes", "", 0, "")
DailyErrorPiece == Piece("placeholder", "Error processing daily notes", "", 0, "")
NoNotesSummary == Piece("summary", "No notes", "", 0, "")
NoLinkedSummary == Piece("summary", "No linked notes", "", 0, "")

(* ------------------------------------------------------------------------ *)
(* processAndAddNoteContent                                                 *)
(* ------------------------------------------------------------------------ *)

\* processAndAddNoteContent without contentIncludedPaths.add(file.path)
processAndAddNoteContent_NotMarked(file, depth, isSourceNote, combined, includedPaths) ==
    IF file \in includedPaths
    THEN [content |-> combined, included |-> includedPaths, result |-> TRUE,
          filtered |-> FALSE, read |-> FALSE]
    ELSE
      LET passes == passesFilters(fileCache[file], settings)
          titlePrefix == IF isSourceNote THEN "Source Note" ELSE "Linked Note"
          depthString == IF isSourceNote THEN 0 ELSE depth
      IN  IF passes
          THEN [content |-> Append(combined,
                               NotePiece(titlePrefix, file, depthString,
                                         IF file \notin unreadable THEN "content" ELSE "error")),
                included |-> includedPaths,
                result |-> passes, filtered |-> TRUE, read |-> TRUE]
          ELSE [content |-> IF isSourceNote
                            THEN Append(combined,
                                    NotePiece(titlePrefix, file, depthString, "skipped"))
                            ELSE combined,
                included |-> includedPaths, result |-> passes,
                filtered |-> TRUE, read |-> FALSE]

\* processAndAddNoteContent marking the file as included when the read throws
processAndAddNoteContent_ErrorMarked(file, depth, isSourceNote, combined, includedPaths) ==
    IF file \in includedPaths
    THEN [content |-> combined, included |-> includedPaths, result |-> TRUE,
          filtered |-> FALSE, read |-> FALSE]
    ELSE
      LET passes == passesFilters(fileCache[file], settings)
          titlePrefix == IF isSourceNote THEN "Source Note" ELSE "Linked Note"
          depthString == IF isSourceNote THEN 0 ELSE depth
      IN  IF passes
          THEN [content |-> Append(combined,
                               NotePiece(titlePrefix, file, depthString,
                                         IF file \notin unreadable THEN "content" ELSE "error")),
                included |-> includedPaths \cup {file},
                result |-> passes, filtered |-> TRUE, read |-> TRUE]
          ELSE [content |-> IF isSourceNote
                            THEN Append(combined,
                                    NotePiece(titlePrefix, file, depthString, "skipped"))
                            ELSE combined,
                included |-> includedPaths, result |-> passes,
                filtered |-> TRUE, read |-> FALSE]

\* processAndAddNoteContent writing the skipped line for every note that fails
processAndAddNoteContent_SkippedForAll(file, depth, isSourceNote, combined, includedPaths) ==
    IF file \in includedPaths
    THEN [content |-> combined, included |-> includedPaths, result |-> TRUE,
          filtered |-> FALSE, read |-> FALSE]
    ELSE
      LET cache == fileCache[file]
          passes == passesFilters(cache, settings)
          titlePrefix == IF isSourceNote THEN "Source Note" ELSE "Linked Note"
          depthString == IF isSourceNote THEN 0 ELSE depth
      IN  IF passes
          THEN IF file \notin unreadable
               THEN [content |-> Append(combined,
                                    NotePiece(titlePrefix, file, depthString, "content")),
                     included |-> includedPaths \cup {file}, result |-> passes,
                     filtered |-> TRUE, read |-> TRUE]
               ELSE [content |-> Append(combined,
                                    NotePiece(titlePrefix, file, depthString, "error")),
                     included |-> includedPaths, result |-> passes,
                     filtered |-> TRUE, read |-> TRUE]
          ELSE [content |-> Append(combined,
                                   NotePiece(titlePrefix, file, depthString, "skipped")),
                included |-> includedPaths, result |-> passes,
                filtered |-> TRUE, read |-> FALSE]

\* The effect of one call: the text and the inclusion set after it, the value
\* returned, and for the history whether the filter ran and the file was read.
processAndAddNoteContent(file, depth, isSourceNote, combined, includedPaths) ==
    IF file \in includedPaths
    THEN [content |-> combined, included |-> includedPaths, result |-> TRUE,
          filtered |-> FALSE, read |-> FALSE]
    ELSE
      LET cache == fileCache[file]
          passes == passesFilters(cache, settings)
          titlePrefix == IF isSourceNote THEN "Source Note" ELSE "Linked Note"
          depthString == IF isSourceNote THEN 0 ELSE depth
      IN  IF passes
          THEN IF file \notin unreadable
               THEN [content |-> Append(combined,
                                    NotePiece(titlePrefix, file, depthString, "content")),
                     included |-> includedPaths \cup {file}, result |-> passes,
                     filtered |-> TRUE, read |-> TRUE]
               ELSE [content |-> Append(combined,
                                    NotePiece(titlePrefix, file, depthString, "error")),
                     included |-> includedPaths, result |-> passes,
                     filtered |-> TRUE, read |-> TRUE]
          ELSE [content |-> IF isSourceNote
                            THEN Append(combined,
                                    NotePiece(titlePrefix, file, depthString, "skipped"))
                            ELSE combined,
                included |-> includedPaths, result |-> passes,
                filtered |-> TRUE, read |-> FALSE]

\* enqueueLinks without the visited test
RECURSIVE enqueueLinks_Unchecked(_, _, _, _)
enqueueLinks_Unchecked(links, depth, q, visited) ==
    IF links = <<>> THEN [queue |-> q, visited |-> visited]
    ELSE enqueueLinks_Unchecked(Tail(links), depth,
                                Append(q, [path |-> Head(links), depth |-> depth]),
                                visited \cup {Head(links)})

\* enqueueLinks putting each new entry at the head of the queue
RECURSIVE enqueueLinks_AtHead(_, _, _, _)
enqueueLinks_AtHead(links, depth, q, visited) ==
    IF links = <<>> THEN [queue |-> q, visited |-> visited]
    ELSE IF Head(links) \notin visited
    THEN enqueueLinks_AtHead(Tail(links), depth,
                             << [path |-> Head(links), depth |-> depth] >> \o q,
                             visited \cup {Head(links)})
    ELSE enqueueLinks_AtHead(Tail(links), depth, q, visited)

\* for (const path in links) if (!visited.has(path)) { queue.push(..); visited.add(path) }
RECURSIVE enqueueLinks(_, _, _, _)
enqueueLinks(links, depth, q, visited) ==
    IF links = <<>> THEN [queue |-> q, visited |-> visited]
    ELSE IF Head(links) \notin visited
    THEN enqueueLinks(Tail(links), depth,
                      Append(q, [path |-> Head(links), depth |-> depth]),
                      visited \cup {Head(links)})
    ELSE enqueueLinks(Tail(links), depth, q, visited)

\* if (depth < maxDepth) { enqueue the unvisited links of currentPath at depth + 1 }
\* enqueueChildren with the depth test off by one upwards
enqueueChildren_AtMaxDepth(currentPath, depth, q, visited) ==
    IF depth <= maxDepth
    THEN LET e == enqueueLinks(resolvedLinks[currentPath], depth + 1, q, visited)
         IN  [queue |-> e.queue, visited |-> e.visited, enumerated |-> TRUE]
    ELSE [queue |-> q, visited |-> visited, enumerated |-> FALSE]

\* enqueueChildren with the depth test off by one downwards
enqueueChildren_StopsEarly(currentPath, depth, q, visited) ==
    IF depth + 1 < maxDepth
    THEN LET e == enqueueLinks(resolvedLinks[currentPath], depth + 1, q, visited)
         IN  [queue |-> e.queue, visited |-> e.visited, enumerated |-> TRUE]
    ELSE [queue |-> q, visited |-> visited, enumerated |-> FALSE]

enqueueChildren(currentPath, depth, q, visited) ==
    IF depth < maxDepth
    THEN LET e == enqueueLinks(resolvedLinks[currentPath], depth + 1, q, visited)
         IN  [queue |-> e.queue, visited |-> e.visited, enumerated |-> TRUE]
    ELSE [queue |-> q, visited |-> visited, enumerated |-> FALSE]

\* the daily loop calling the full filter
dailyNotePasses_FullFilter(dailyFile) == passesFilters(fileCache[dailyFile], settings)

\* this.passesPrivacyFilter(dailyFile, getFileCache(dailyFile)) of the daily loop
dailyNotePasses(dailyFile) == passesPrivacyFilter(fileCache[dailyFile], settings)

(* ------------------------------------------------------------------------ *)
(* Content helpers                                                          *)
(* ------------------------------------------------------------------------ *)

\* A note's text is a tuple of one-character strings; positions are counted
\* from 0 as in the code.
NL == "\n"

frontmatterSeparator == <<"-", "-", "-", NL>>

\* String.prototype.indexOf(searchString, position): -1 when there is none
indexOf(s, searchString, position) ==
    LET hits == { i \in position..(Len(s) - Len(searchString)) :
                      SubSeq(s, i + 1, i + Len(searchString)) = searchString }
    IN  IF hits = {} THEN -1 ELSE CHOOSE i \in hits : \A j \in hits : i <= j

\* String.prototype.substring(start) and substring(start, end)
substring(s, start) == SubSeq(s, start + 1, Len(s))
substring2(s, start, end) == SubSeq(s, start + 1, IF end > Len(s) THEN Len(s) ELSE end)

\* /^\s*---\s*$/m matched at position i of s: i starts a line, white space
\* (line ends included) up to some j, the three dashes, white space up to
\* some k, and k ends a line
separatorRegexAt(s, i) ==
    /\ i = 0 \/ s[i] = NL
    /\ \E j \in i..(Len(s) - 3) :
          /\ \A m \in i..(j - 1) : isSpace(s[m + 1])
          /\ SubSeq(s, j + 1, j + 3) = <<"-", "-", "-">>
          /\ \E k \in (j + 3)..Len(s) :
                /\ \A m \in (j + 3)..(k - 1) : isSpace(s[m + 1])
                /\ k = Len(s) \/ s[k + 1] = NL

\* separatorRegex.exec(s): the index of the leftmost match, -1 for null
separatorRegexExec(s) ==
    LET hits == { i \in 0..Len(s) : separatorRegexAt(s, i) }
    IN  IF hits = {} THEN -1 ELSE CHOOSE i \in hits : \A j \in hits : i <= j

truncateContentAfterFirstSeparator(text) ==
    LET endFrontmatterIndex ==
            indexOf(text, frontmatterSeparator, Len(frontmatterSeparator))
        contentStartIndex ==
            IF startsWith(text, frontmatterSeparator)
            THEN IF endFrontmatterIndex # -1
                 THEN endFrontmatterIndex + Len(frontmatterSeparator)
                 ELSE 0
            ELSE 0
        contentBody == substring(text, contentStartIndex)
        match == separatorRegexExec(contentBody)
    IN  IF match # -1
        THEN trim(substring2(contentBody, 0, match))
        ELSE trim(contentBody)

\* the length of the longest run of characters outside stop, from position i
RECURSIVE runOf(_, _, _)
runOf(s, i, stop) ==
    IF i < Len(s) /\ s[i + 1] \notin stop THEN 1 + runOf(s, i + 1, stop) ELSE 0

\* /\[\[(?:[^|\]]+\|)?([^\]]+)\]\]/ matched at position i of s. Each of the
\* two character runs can only be taken whole: a shorter run is followed by
\* a character of the run, which is neither the bar nor the bracket the
\* pattern needs next. The alias part is tried first; when what follows it
\* does not match, the pattern is tried without it.
wikiLinkAt(s, i) ==
    LET open == i + 2
        target == runOf(s, open, {"|", "]"})
        bar == open + target
        aliased == target >= 1 /\ bar < Len(s) /\ s[bar + 1] = "|"
        display == runOf(s, bar + 1, {"]"})
        whole == runOf(s, open, {"]"})
        closes(from, n) == n >= 1 /\ substring2(s, from + n, from + n + 2) = <<"]", "]">>
    IN  IF substring2(s, i, i + 2) # <<"[", "[">>
        THEN [matched |-> FALSE, group |-> << >>, end |-> i]
        ELSE IF aliased /\ closes(bar + 1, display)
        THEN [matched |-> TRUE, group |-> substring2(s, bar + 1, bar + 1 + display),
              end |-> bar + 1 + display + 2]
        ELSE IF closes(open, whole)
        THEN [matched |-> TRUE, group |-> substring2(s, open, open + whole),
              end |-> open + whole + 2]
        ELSE [matched |-> FALSE, group |-> << >>, end |-> i]

\* text.replace(regex with flag g, "$1") from position i on
RECURSIVE replaceFrom(_, _)
replaceFrom(s, i) ==
    IF i >= Len(s) THEN << >>
    ELSE LET m == wikiLinkAt(s, i)
         IN  IF m.matched THEN m.group \o replaceFrom(s, m.end)
             ELSE << s[i + 1] >> \o replaceFrom(s, i + 1)

removeWikiLinks(text) == replaceFrom(text, 0)

(* ------------------------------------------------------------------------ *)
(* createContextFile, step by step                                          *)
(* ------------------------------------------------------------------------ *)

run == << pc, maxDepth, content, contentIncludedPaths, traversalVisitedPaths,
          includedNotesCount, iteration, queue, processedLinkCandidates,
          dailyNotesToProcess, dailyNotesAddedCount, notices, outputFile, loggedError,
          evaluated, reads, dequeued, expanded >>

\* the depth test letting 0 through
invalidDepth_ZeroAccepted(d) == d.t \notin {"number", "NaN"} \/ d.t = "NaN" \/ d.v < 0

\* typeof maxDepth !== "number" || isNaN(maxDepth) || maxDepth < 1
invalidDepth(d) == d.t \notin {"number", "NaN"} \/ d.t = "NaN" \/ d.v < 1

\* Entry: the active-file check, the depth check, the header.
Start ==
    /\ pc = "idle"
    /\ IF activeFile = NoFile \/ fileKind[activeFile] # "md"
       THEN /\ notices' = Append(notices, "Please open a Markdown note first.")
            /\ pc' = "returned"
            /\ UNCHANGED << maxDepth, content >>
       ELSE IF invalidDepth(settings.linkDepth)
       THEN /\ notices' = Append(notices, "Error: Invalid Link Depth setting")
            /\ pc' = "returned"
            /\ UNCHANGED << maxDepth, content >>
       ELSE /\ notices' = Append(notices, "Creating context")
            /\ maxDepth' = settings.linkDepth.v
            /\ content' = << HeaderPiece(activeFile, settings.linkDepth.v) >>
            /\ pc' = "source"
    /\ UNCHANGED << host, preview, helpers, invocations, loggedError, contentIncludedPaths, traversalVisitedPaths, includedNotesCount,
                    iteration, queue, processedLinkCandidates, dailyNotesToProcess,
                    dailyNotesAddedCount, outputFile, evaluated, reads, dequeued, expanded >>

\* ProcessActiveNote without traversalVisitedPaths.add(activeFile.path)
ProcessActiveNote_SourceUnvisited ==
    /\ pc = "source"
    /\ LET r == processAndAddNoteContent(activeFile, 0, TRUE, content, contentIncludedPaths)
       IN  /\ content' = r.content
           /\ contentIncludedPaths' = r.included
           /\ includedNotesCount' =
                  IF activeFile \in r.included THEN includedNotesCount + 1
                  ELSE includedNotesCount
           /\ evaluated' =
                  IF r.filtered
                  THEN evaluated \cup {[path |-> activeFile, filter |-> "passesFilters",
                                        result |-> r.result]}
                  ELSE evaluated
           /\ reads' = IF r.read THEN Append(reads, activeFile) ELSE reads
    /\ traversalVisitedPaths' = traversalVisitedPaths
    /\ pc' = "links"
    /\ UNCHANGED << host, preview, helpers, invocations, loggedError, maxDepth, iteration, queue, processedLinkCandidates,
                    dailyNotesToProcess, dailyNotesAddedCount, notices, outputFile,
                    dequeued, expanded >>

\* Part 1: the active note.
ProcessActiveNote ==
    /\ pc = "source"
    /\ LET r == processAndAddNoteContent(activeFile, 0, TRUE, content, contentIncludedPaths)
       IN  /\ content' = r.content
           /\ contentIncludedPaths' = r.included
           /\ includedNotesCount' =
                  IF activeFile \in r.included THEN includedNotesCount + 1
                  ELSE includedNotesCount
           /\ evaluated' =
                  IF r.filtered
                  THEN evaluated \cup {[path |-> activeFile, filter |-> "passesFilters",
                                        result |-> r.result]}
                  ELSE evaluated
           /\ reads' = IF r.read THEN Append(reads, activeFile) ELSE reads
    /\ traversalVisitedPaths' = traversalVisitedPaths \cup {activeFile}
    /\ pc' = "links"
    /\ UNCHANGED << host, preview, helpers, invocations, loggedError, maxDepth, iteration, queue, processedLinkCandidates,
                    dailyNotesToProcess, dailyNotesAddedCount, notices, outputFile,
                    dequeued, expanded >>

\* InitQueue putting the heading of the linked notes in front of the text
InitQueue_HeadingFirst ==
    /\ pc = "links"
    /\ content' = << LinkedHeading(maxDepth) >> \o content
    /\ LET e == enqueueLinks(resolvedLinks[activeFile], 1, << >>, traversalVisitedPaths)
       IN  /\ queue' = e.queue
           /\ traversalVisitedPaths' = e.visited
    /\ expanded' = Append(expanded, activeFile)
    /\ processedLinkCandidates' = 0
    /\ pc' = "bfs"
    /\ UNCHANGED << host, preview, helpers, invocations, loggedError, maxDepth, contentIncludedPaths, includedNotesCount, iteration,
                    dailyNotesToProcess, dailyNotesAddedCount, notices, outputFile,
                    evaluated, reads, dequeued >>

\* InitQueue enumerating the links of the source only if its content was included
InitQueue_OnlyIfIncluded ==
    /\ pc = "links"
    /\ content' = Append(content, LinkedHeading(maxDepth))
    /\ LET e == enqueueLinks(IF activeFile \in contentIncludedPaths
                              THEN resolvedLinks[activeFile] ELSE << >>,
                              1, << >>, traversalVisitedPaths)
       IN  /\ queue' = e.queue
           /\ traversalVisitedPaths' = e.visited
    /\ expanded' = Append(expanded, activeFile)
    /\ processedLinkCandidates' = 0
    /\ pc' = "bfs"
    /\ UNCHANGED << host, preview, helpers, invocations, loggedError, maxDepth, contentIncludedPaths, includedNotesCount, iteration,
                    dailyNotesToProcess, dailyNotesAddedCount, notices, outputFile,
                    evaluated, reads, dequeued >>

\* Part 2, before the loop: the heading and the depth 1 links of the source.
InitQueue ==
    /\ pc = "links"
    /\ content' = Append(content, LinkedHeading(maxDepth))
    /\ LET e == enqueueLinks(resolvedLinks[activeFile], 1, << >>, traversalVisitedPaths)
       IN  /\ queue' = e.queue
           /\ traversalVisitedPaths' = e.visited
    /\ expanded' = Append(expanded, activeFile)
    /\ processedLinkCandidates' = 0
    /\ pc' = "bfs"
    /\ UNCHANGED << host, preview, helpers, invocations, loggedError, maxDepth, contentIncludedPaths, includedNotesCount, iteration,
                    dailyNotesToProcess, dailyNotesAddedCount, notices, outputFile,
                    evaluated, reads, dequeued >>

\* the safety break tripping one iteration late
safetyBreak_OneLate(n, ceiling) == n > ceiling + 1

\* if (iteration > 10000), with the ceiling as a parameter
safetyBreak(n, ceiling) == n > ceiling

\* the test taking every file for a markdown note
notMarkdownFile_FoldersOnly(path) == fileKind[path] = "none"

\* !(currentFile instanceof TFile) || currentFile.extension !== "md"
notMarkdownFile(path) == fileKind[path] # "md"

\* Part 2: the test of the while loop and one pass through its body.
BFSStep(ceiling) ==
    /\ pc = "bfs"
    /\ IF queue = << >>
       THEN /\ pc' = "daily"
            /\ UNCHANGED << content, contentIncludedPaths, traversalVisitedPaths,
                            includedNotesCount, iteration, queue, processedLinkCandidates,
                            notices, evaluated, reads, dequeued, expanded >>
       ELSE IF safetyBreak(iteration + 1, ceiling)
       THEN /\ iteration' = iteration + 1
            /\ notices' = Append(notices, "Error: Traversal loop ran too long.")
            /\ pc' = "daily"
            /\ UNCHANGED << content, contentIncludedPaths, traversalVisitedPaths,
                            includedNotesCount, queue, processedLinkCandidates,
                            evaluated, reads, dequeued, expanded >>
       ELSE
         LET currentPath == Head(queue).path
             depth == Head(queue).depth
             rest == Tail(queue)
         IN  /\ iteration' = iteration + 1
             /\ processedLinkCandidates' = processedLinkCandidates + 1
             /\ dequeued' = Append(dequeued, Head(queue))
             /\ pc' = "bfs"
             /\ notices' = notices
             /\ IF notMarkdownFile(currentPath)
                THEN /\ queue' = rest
                     /\ UNCHANGED << content, contentIncludedPaths, traversalVisitedPaths,
                                     includedNotesCount, evaluated, reads, expanded >>
                ELSE
                  LET alreadyIncluded == currentPath \in contentIncludedPaths
                      r == processAndAddNoteContent(currentPath, depth, FALSE, content,
                                                    contentIncludedPaths)
                      e == enqueueChildren(currentPath, depth, rest, traversalVisitedPaths)
                  IN  /\ content' = r.content
                      /\ contentIncludedPaths' = r.included
                      /\ includedNotesCount' =
                             IF r.result /\ ~alreadyIncluded /\ currentPath \in r.included
                             THEN includedNotesCount + 1
                             ELSE includedNotesCount
                      /\ evaluated' =
                             IF r.filtered
                             THEN evaluated \cup {[path |-> currentPath,
                                                   filter |-> "passesFilters",
                                                   result |-> r.result]}
                             ELSE evaluated
                      /\ reads' = IF r.read THEN Append(reads, currentPath) ELSE reads
                      /\ queue' = e.queue
                      /\ traversalVisitedPaths' = e.visited
                      /\ expanded' = IF e.enumerated THEN Append(expanded, currentPath)
                                     ELSE expanded
    /\ UNCHANGED << host, preview, helpers, invocations, loggedError, maxDepth, dailyNotesToProcess, dailyNotesAddedCount, outputFile >>

\* the loop with the ceiling the code compares to
BFSLoop == BFSStep(SafetyCeiling)

\* the filter callback of potentialDailyNotes
isPotentialDailyNote(p) ==
    /\ fileKind[p] = "md"
    /\ dailyNoteRegex(nameOf(p))
    /\ ~fileCache[p].isNull
    /\ \E tag \in fileCache[p].tags : startsWith(toLowerCase(tag), RAW_DAILY)

\* .sort((a, b) => b.basename.localeCompare(a.basename)): the greatest
\* basename first (the basenames of Paths are distinct)
RECURSIVE sortByBasenameDescending(_)
sortByBasenameDescending(S) ==
    IF S = {} THEN << >>
    ELSE LET first == CHOOSE a \in S :
                         \A b \in S : ~localeLess(basenameOf(a), basenameOf(b))
         IN  << first >> \o sortByBasenameDescending(S \ {first})

\* slice(0, n) keeping one element more
slice0_OneMore(seq, n) == SubSeq(seq, 1, IF n + 1 < Len(seq) THEN n + 1 ELSE Len(seq))

\* Array.prototype.slice(0, n)
slice0(seq, n) == SubSeq(seq, 1, IF n < Len(seq) THEN n ELSE Len(seq))

\* Part 3, before the loop: the heading and the selection of the daily notes.
DailySelect ==
    /\ pc = "daily"
    /\ IF settings.includeRecentDailyNotes
       THEN /\ content' = Append(content, DailyHeading(settings.numberOfRecentDays))
            /\ dailyNotesAddedCount' = 0
            /\ dailyNotesToProcess' =
                   slice0(sortByBasenameDescending({p \in Paths : isPotentialDailyNote(p)}),
                          settings.numberOfRecentDays)
            /\ pc' = "dailyLoop"
       ELSE /\ pc' = "summary"
            /\ UNCHANGED << content, dailyNotesAddedCount, dailyNotesToProcess >>
    /\ UNCHANGED << host, preview, helpers, invocations, loggedError, maxDepth, contentIncludedPaths, traversalVisitedPaths,
                    includedNotesCount, iteration, queue, processedLinkCandidates,
                    notices, outputFile, evaluated, reads, dequeued, expanded >>

\* the test of the placeholder passing with one note added
noDailyNoteAdded_UpToOne(count) == count <= 1

\* if (dailyNotesAddedCount === 0)
noDailyNoteAdded(count) == count = 0

\* the for loop without the skip of the notes the traversal has included
DailyLoop_NoSkip ==
    /\ pc = "dailyLoop"
    /\ IF dailyNotesToProcess = << >>
       THEN /\ content' = IF noDailyNoteAdded(dailyNotesAddedCount)
                          THEN Append(content, NoDailyPiece)
                          ELSE content
            /\ pc' = "summary"
            /\ UNCHANGED << contentIncludedPaths, includedNotesCount, dailyNotesToProcess,
                            dailyNotesAddedCount, evaluated, reads >>
       ELSE
         LET dailyFile == Head(dailyNotesToProcess)
         IN  /\ dailyNotesToProcess' = Tail(dailyNotesToProcess)
             /\ pc' = "dailyLoop"
             /\ IF FALSE /\ dailyFile \in contentIncludedPaths
                THEN UNCHANGED << content, contentIncludedPaths, includedNotesCount,
                                  dailyNotesAddedCount, evaluated, reads >>
                ELSE
                  LET passes == dailyNotePasses(dailyFile)
                  IN  /\ evaluated' = evaluated \cup
                              {[path |-> dailyFile, filter |-> "passesPrivacyFilter",
                                result |-> passes]}
                      /\ IF passes
                         THEN /\ reads' = Append(reads, dailyFile)
                              /\ IF dailyFile \notin unreadable
                                 THEN /\ content' = Append(content,
                                              NotePiece("Daily Note", dailyFile, 0, "content"))
                                      /\ contentIncludedPaths' =
                                              contentIncludedPaths \cup {dailyFile}
                                      /\ dailyNotesAddedCount' = dailyNotesAddedCount + 1
                                      /\ includedNotesCount' = includedNotesCount + 1
                                 ELSE /\ content' = Append(content,
                                              NotePiece("Daily Note", dailyFile, 0, "error"))
                                      /\ UNCHANGED << contentIncludedPaths,
                                                      dailyNotesAddedCount,
                                                      includedNotesCount >>
                         ELSE UNCHANGED << content, contentIncludedPaths, includedNotesCount,
                                           dailyNotesAddedCount, reads >>
    /\ UNCHANGED << host, preview, helpers, invocations, loggedError, maxDepth, traversalVisitedPaths, iteration, queue,
                    processedLinkCandidates, notices, outputFile, dequeued, expanded >>

\* Part 3: one daily note of the for loop, or the end of the loop.
DailyLoop ==
    /\ pc = "dailyLoop"
    /\ IF dailyNotesToProcess = << >>
       THEN /\ content' = IF noDailyNoteAdded(dailyNotesAddedCount)
                          THEN Append(content, NoDailyPiece)
                          ELSE content
            /\ pc' = "summary"
            /\ UNCHANGED << contentIncludedPaths, includedNotesCount, dailyNotesToProcess,
                            dailyNotesAddedCount, evaluated, reads >>
       ELSE
         LET dailyFile == Head(dailyNotesToProcess)
         IN  /\ dailyNotesToProcess' = Tail(dailyNotesToProcess)
             /\ pc' = "dailyLoop"
             /\ IF dailyFile \in contentIncludedPaths
                THEN UNCHANGED << content, contentIncludedPaths, includedNotesCount,
                                  dailyNotesAddedCount, evaluated, reads >>
                ELSE
                  LET passes == dailyNotePasses(dailyFile)
                  IN  /\ evaluated' = evaluated \cup
                              {[path |-> dailyFile, filter |-> "passesPrivacyFilter",
                                result |-> passes]}
                      /\ IF passes
                         THEN /\ reads' = Append(reads, dailyFile)
                              /\ IF dailyFile \notin unreadable
                                 THEN /\ content' = Append(content,
                                              NotePiece("Daily Note", dailyFile, 0, "content"))
                                      /\ contentIncludedPaths' =
                                              contentIncludedPaths \cup {dailyFile}
                                      /\ dailyNotesAddedCount' = dailyNotesAddedCount + 1
                                      /\ includedNotesCount' = includedNotesCount + 1
                                 ELSE /\ content' = Append(content,
                                              NotePiece("Daily Note", dailyFile, 0, "error"))
                                      /\ UNCHANGED << contentIncludedPaths,
                                                      dailyNotesAddedCount,
                                                      includedNotesCount >>
                         ELSE UNCHANGED << content, contentIncludedPaths, includedNotesCount,
                                           dailyNotesAddedCount, reads >>
    /\ UNCHANGED << host, preview, helpers, invocations, loggedError, maxDepth, traversalVisitedPaths, iteration, queue,
                    processedLinkCandidates, notices, outputFile, dequeued, expanded >>

\* the summary without the test of the links of the source
Summary_LinksIgnored ==
    /\ pc = "summary"
    /\ content' =
          IF includedNotesCount = 0
          THEN Append(content, NoNotesSummary)
          ELSE IF includedNotesCount =
                        (IF activeFile \in contentIncludedPaths THEN 1 ELSE 0)
          THEN Append(content, NoLinkedSummary)
          ELSE content
    /\ pc' = "output"
    /\ UNCHANGED << host, preview, helpers, invocations, loggedError, maxDepth, contentIncludedPaths, traversalVisitedPaths,
                    includedNotesCount, iteration, queue, processedLinkCandidates,
                    dailyNotesToProcess, dailyNotesAddedCount, notices, outputFile,
                    evaluated, reads, dequeued, expanded >>

\* Final output generation: the summary line.
Summary ==
    /\ pc = "summary"
    /\ content' =
          IF includedNotesCount = 0
          THEN Append(content, NoNotesSummary)
          ELSE IF /\ includedNotesCount =
                        (IF activeFile \in contentIncludedPaths THEN 1 ELSE 0)
                  /\ Len(resolvedLinks[activeFile]) > 0
          THEN Append(content, NoLinkedSummary)
          ELSE content
    /\ pc' = "output"
    /\ UNCHANGED << host, preview, helpers, invocations, loggedError, maxDepth, contentIncludedPaths, traversalVisitedPaths,
                    includedNotesCount, iteration, queue, processedLinkCandidates,
                    dailyNotesToProcess, dailyNotesAddedCount, notices, outputFile,
                    evaluated, reads, dequeued, expanded >>

\* what the vault holds at the export folder path: "" is an empty setting
ExportFolderStates == {"", "missing", "folder", "file"}

\* the messages of the errors vault.create throws
CreateErrors == {"File already exists", "EACCES: permission denied"}

\* the Notices of createOutputFile, without the names they carry
FolderNotCreatedNotice == "Error: Could not create export folder. Saving to vault root."
NotAFolderNotice == "Error: Export path exists but is not a folder. Saving to vault root."
CreatedInRootNotice == "Context file created in vault root"
CreatedNotice == "Context file created"
AlreadyExistsNotice == "Error: File already exists"
ErrorNotice == "Error creating context file. Check console for details."

\* the catch of createOutputFile: the Notice it shows for an error
noticeFor(err) ==
    IF err = "File already exists" THEN AlreadyExistsNotice ELSE ErrorNotice

\* createOutputFile: the export folder is there, or is created, or the file
\* goes to the vault root; vault.create writes the text, or throws and the
\* throw is caught, shown as a Notice and logged.
CreateOutputFile ==
    /\ pc = "output"
    /\ \E exportFolder \in ExportFolderStates, folderCreated \in BOOLEAN,
          createError \in CreateErrors \cup {NoError} :
          LET noFolder == exportFolder = "missing" /\ ~folderCreated
              notAFolder == exportFolder = "file"
              shown == IF noFolder THEN Append(notices, FolderNotCreatedNotice)
                       ELSE IF notAFolder THEN Append(notices, NotAFolderNotice)
                       ELSE notices
          IN  IF createError = NoError
              THEN /\ outputFile' = content
                   /\ notices' = Append(shown, IF noFolder \/ notAFolder
                                               THEN CreatedInRootNotice
                                               ELSE CreatedNotice)
                   /\ loggedError' = loggedError
              ELSE /\ outputFile' = outputFile
                   /\ notices' = Append(shown, noticeFor(createError))
                   /\ loggedError' = createError
    /\ pc' = "done"
    /\ UNCHANGED << host, preview, helpers, invocations, maxDepth, content, contentIncludedPaths,
                    traversalVisitedPaths, includedNotesCount, iteration, queue,
                    processedLinkCandidates, dailyNotesToProcess, dailyNotesAddedCount,
                    evaluated, reads, dequeued, expanded >>

Next ==
    \/ Start
    \/ ProcessActiveNote
    \/ InitQueue
    \/ BFSLoop
    \/ DailySelect
    \/ DailyLoop
    \/ Summary
    \/ CreateOutputFile

(* ------------------------------------------------------------------------ *)
(* Initial states: the vaults and settings a run starts from                *)
(* ------------------------------------------------------------------------ *)

\* bounds of the settings drawn
MaxLinkDepth == 3
MaxRecentDays == 2

Settings(levels, tags, excluded, depth, recent, days) ==
    [includePrivacyLevels |-> levels, targetTags |-> tags, excludedTags |-> excluded,
     linkDepth |-> JSNumber(depth), includeRecentDailyNotes |-> recent, numberOfRecentDays |-> days]

RunInit ==
    /\ pc = "idle"
    /\ maxDepth = 0
    /\ content = << >>
    /\ contentIncludedPaths = {}
    /\ traversalVisitedPaths = {}
    /\ includedNotesCount = 0
    /\ iteration = 0
    /\ queue = << >>
    /\ processedLinkCandidates = 0
    /\ dailyNotesToProcess = << >>
    /\ dailyNotesAddedCount = 0
    /\ notices = << >>
    /\ outputFile = << >>
    /\ loggedError = NoError
    /\ evaluated = {}
    /\ reads = << >>
    /\ dequeued = << >>
    /\ expanded = << >>

\* the key lists of resolvedLinks over a set of notes: up to two distinct targets
LinkLists(S) ==
    {<< >>} \cup {<< a >> : a \in S} \cup {l \in S \X S : l[1] # l[2]}

\* spellings of privacy values found in notes
SECRET == <<"s","e","c","r","e","t">>
PUBLIC_AS_TYPED == <<" ","P","u","b","l","i","c">>

\* resolvedLinks and getFileCache as functions on Paths, from the entries given
LinksOf(given) == [p \in Paths |-> IF p \in DOMAIN given THEN given[p] ELSE << >>]
CachesOf(given) == [p \in Paths |-> IF p \in DOMAIN given THEN given[p] ELSE NullCache]
KindsOf(given) == [p \in Paths |-> IF p \in DOMAIN given THEN given[p] ELSE "none"]

PublicNote == Cache(JSString(PUBLIC_AS_TYPED), {RAW_WIP})

GraphNotes == {"A.md", "B.md", "C.md", "D.md"}

\* Link graphs: four public notes and every graph in which A and B list up
\* to two targets and C up to one (self-links and cycles included), at every
\* depth.
InitGraphs ==
    /\ activeFile = "A.md"
    /\ fileKind = KindsOf([p \in GraphNotes |-> "md"])
    /\ \E la \in LinkLists(GraphNotes), lb \in LinkLists(GraphNotes),
          lc \in {l \in LinkLists(GraphNotes) : Len(l) <= 1} :
          resolvedLinks = LinksOf("A.md" :> la @@ "B.md" :> lb @@ "C.md" :> lc)
    /\ fileCache = CachesOf([p \in GraphNotes |-> PublicNote])
    /\ unreadable = {}
    /\ \E depth \in 1..MaxLinkDepth :
          settings = Settings({PUBLIC}, {}, {}, depth, FALSE, 1)
    /\ RunInit

\* the privacy entries a note's frontmatter can hold
PrivacyEntries ==
    { JSUndefined, JSNull, JSString(<< >>), JSString(<<" "," ">>),
      JSString(PUBLIC), JSString(PUBLIC_AS_TYPED), JSString(SECRET), JSString(NONE),
      JSBoolean(<<"t","r","u","e">>) }

FilterCaches ==
    {NullCache} \cup { Cache(p, T) : p \in PrivacyEntries, T \in SUBSET {RAW_WIP, RAW_OLD} }

\* Filters: one source note without links and one daily note with the same
\* metadata, over every metadata value and every filter setting; either note
\* may be unreadable.
InitFilters ==
    /\ activeFile = "A.md"
    /\ fileKind = KindsOf("A.md" :> "md" @@ "2024-01-02.md" :> "md")
    /\ resolvedLinks = LinksOf(<< >>)
    /\ \E c \in FilterCaches :
          fileCache = CachesOf(
              "A.md" :> c @@
              "2024-01-02.md" :>
                  (IF c.isNull THEN c ELSE Cache(c.privacy, c.tags \cup {RAW_DAILY})))
    /\ unreadable \in {{}, {"A.md"}, {"2024-01-02.md"}}
    /\ \E levels \in SUBSET {PUBLIC, NONE}, tags \in SUBSET {TAG_WIP, TAG_OLD},
          excluded \in {{}, {TAG_OLD}} :
          settings = Settings(levels, tags, excluded, 1, TRUE, 1)
    /\ RunInit

\* the metadata of a linked note
LinkedCaches ==
    { NullCache,
      Cache(JSString(PUBLIC_AS_TYPED), {}),
      Cache(JSString(PUBLIC_AS_TYPED), {RAW_WIP}),
      Cache(JSString(PUBLIC_AS_TYPED), {RAW_WIP, RAW_OLD}),
      Cache(JSString(SECRET), {RAW_WIP}),
      Cache(JSUndefined, {RAW_WIP}) }

\* Linked notes: a passing source, a chain A -> B -> C with or without an
\* attachment before B and a link back to A; B of every metadata, possibly
\* unreadable or deleted; C public or secret.
InitLinked ==
    /\ activeFile = "A.md"
    /\ \E kb \in {"md", "none"}, la \in {<<"B.md">>, <<"img.png", "B.md">>},
          lb \in {<<"C.md">>, <<"C.md", "A.md">>}, cb \in LinkedCaches,
          cc \in {PublicNote, Cache(JSString(SECRET), {RAW_WIP})} :
          /\ kb = "none" => (lb = <<"C.md">> /\ cb = NullCache)
          /\ fileKind = KindsOf("A.md" :> "md" @@ "B.md" :> kb @@ "C.md" :> "md"
                                @@ "img.png" :> "other")
          /\ resolvedLinks = LinksOf("A.md" :> la @@
                                     "B.md" :> (IF kb = "md" THEN lb ELSE << >>))
          /\ fileCache = CachesOf("A.md" :> PublicNote @@ "B.md" :> cb @@ "C.md" :> cc)
    /\ unreadable \in {{}, {"B.md"}}
    /\ \E levels \in {{PUBLIC}, {PUBLIC, NONE}}, tags \in {{}, {TAG_WIP}},
          depth \in 1..MaxLinkDepth :
          settings = Settings(levels, tags, {TAG_OLD}, depth, FALSE, 1)
    /\ RunInit

\* Recent daily notes: a passing source that may link to the newest daily
\* note; the newest daily note of every metadata, with or without the daily
\* tag, possibly unreadable; an older daily note, public or secret or absent.
InitDaily ==
    /\ activeFile = "A.md"
    /\ \E la \in {<< >>, <<"2024-01-02.md">>}, c2 \in LinkedCaches, daily2 \in BOOLEAN,
          k1 \in {"md", "none"}, p1 \in {PUBLIC, SECRET} :
          /\ k1 = "none" => p1 = PUBLIC
          /\ c2.isNull => ~daily2
          /\ fileKind = KindsOf("A.md" :> "md" @@ "2024-01-02.md" :> "md"
                                @@ "2024-01-01.md" :> k1)
          /\ resolvedLinks = LinksOf("A.md" :> la)
          /\ fileCache = CachesOf(
                 "A.md" :> PublicNote @@
                 "2024-01-02.md" :>
                     (IF daily2 THEN Cache(c2.privacy, c2.tags \cup {RAW_DAILY}) ELSE c2) @@
                 "2024-01-01.md" :>
                     (IF k1 = "md" THEN Cache(JSString(p1), {<<"#","D","a","i","l","y">>})
                      ELSE NullCache))
    /\ unreadable \in {{}, {"2024-01-02.md"}}
    /\ \E levels \in {{PUBLIC}, {PUBLIC, NONE}}, tags \in {{}, {TAG_WIP}},
          days \in 1..MaxRecentDays :
          settings = Settings(levels, tags, {TAG_OLD}, 1, TRUE, days)
    /\ RunInit

\* Overrun: a vault in which the traversal reaches three notes, with a daily
\* note that one of them may link to, at every depth.
InitOverrun ==
    /\ activeFile = "A.md"
    /\ fileKind = KindsOf([p \in GraphNotes \cup {"2024-01-02.md"} |-> "md"])
    /\ \E la \in {<<"B.md", "C.md">>, <<"B.md">>}, lb \in {<<"D.md">>, <<"C.md", "D.md">>},
          lc \in {<< >>, <<"2024-01-02.md">>} :
          resolvedLinks = LinksOf("A.md" :> la @@ "B.md" :> lb @@ "C.md" :> lc)
    /\ fileCache = CachesOf([p \in GraphNotes |-> PublicNote] @@
                            "2024-01-02.md" :> Cache(JSString(PUBLIC), {RAW_DAILY}))
    /\ unreadable = {}
    /\ \E depth \in 1..MaxLinkDepth, recent \in BOOLEAN :
          settings = Settings({PUBLIC}, {}, {}, depth, recent, 1)
    /\ RunInit

\* Skipped source: a source that fails the privacy filter and links to B,
\* with or without a path that resolves to nothing and a file that is not
\* markdown before it; B public or secret or unreadable and linking on to C
\* (and back to the source), C public; at every depth.
InitSkipped ==
    /\ activeFile = "A.md"
    /\ fileKind = KindsOf([p \in {"A.md", "B.md", "C.md"} |-> "md"] @@ "img.png" :> "other")
    /\ \E la \in {<<"B.md">>, <<"D.md", "img.png", "B.md">>},
          lb \in {<<"C.md">>, <<"A.md", "C.md">>} :
          resolvedLinks = LinksOf("A.md" :> la @@ "B.md" :> lb)
    /\ \E cb \in {PublicNote, Cache(JSString(SECRET), {})} :
          fileCache = CachesOf("A.md" :> Cache(JSString(SECRET), {}) @@ "B.md" :> cb
                               @@ "C.md" :> PublicNote)
    /\ unreadable \in {{}, {"B.md"}}
    /\ \E depth \in 1..MaxLinkDepth, recent \in BOOLEAN :
          settings = Settings({PUBLIC}, {}, {}, depth, recent, 1)
    /\ RunInit

\* values of settings.linkDepth that loadSettings and saveSettings never
\* leave there, written to the settings object from outside the plugin
OddDepths == { JSNumber(0), JSNumber(-1), JSNaN, JSUndefined, JSString(<<"2">>) }

\* Rejected runs: no active file, an active file that is not markdown, or a
\* markdown note with one link and a depth setting of any kind.
InitRejected ==
    /\ activeFile \in {NoFile, "img.png", "A.md"}
    /\ fileKind = KindsOf("A.md" :> "md" @@ "B.md" :> "md" @@ "img.png" :> "other")
    /\ resolvedLinks = LinksOf("A.md" :> <<"B.md">>)
    /\ fileCache = CachesOf("A.md" :> PublicNote @@ "B.md" :> PublicNote)
    /\ unreadable = {}
    /\ \E d \in OddDepths \cup {JSNumber(1)}, recent \in BOOLEAN :
          settings = [Settings({PUBLIC}, {}, {}, 1, recent, 1) EXCEPT !.linkDepth = d]
    /\ RunInit

\* no text is passing through the content helpers
HelpersIdle ==
    /\ npc = "idle"
    /\ fullContent = << >>
    /\ truncatedContent = << >>
    /\ cleanedContent = << >>
    /\ cleanedAgain = << >>

\* the command is invoked once
OneInvocation ==
    /\ parked = NoFrame
    /\ finished = << >>
    /\ previewList = NoPreview

Init ==
    (InitGraphs \/ InitFilters \/ InitLinked \/ InitDaily \/ InitOverrun \/ InitRejected
        \/ InitSkipped)
        /\ HelpersIdle
        /\ OneInvocation

Spec == Init /\ [][Next]_vars

(* ------------------------------------------------------------------------ *)
(* The run to its end                                                       *)
(* ------------------------------------------------------------------------ *)

\* Cycles: A links to itself and to B, B and C link back, one daily note;
\* at every depth, with and without the daily channel.
InitCycles ==
    /\ activeFile = "A.md"
    /\ fileKind = KindsOf([p \in {"A.md", "B.md", "C.md", "2024-01-02.md"} |-> "md"])
    /\ \E lb \in {<<"A.md">>, <<"B.md", "C.md">>},
          lc \in {<<"B.md">>, <<"C.md", "A.md">>} :
          resolvedLinks = LinksOf("A.md" :> <<"A.md", "B.md">> @@ "B.md" :> lb @@ "C.md" :> lc)
    /\ fileCache = CachesOf([p \in {"A.md", "B.md", "C.md"} |-> PublicNote] @@
                            "2024-01-02.md" :> Cache(JSString(PUBLIC), {RAW_DAILY}))
    /\ unreadable = {}
    /\ \E depth \in 1..MaxLinkDepth, recent \in BOOLEAN :
          settings = Settings({PUBLIC}, {}, {}, depth, recent, 1)
    /\ RunInit
    /\ HelpersIdle
    /\ OneInvocation

\* createContextFile is one async function: each await settles (vault.read
\* resolves or throws, and the throw is caught), so a run that can take a
\* step takes it.
SpecLive == InitCycles /\ [][Next]_vars /\ WF_vars(Next)

(* ------------------------------------------------------------------------ *)
(* The run against a ceiling of the size of the vaults drawn                *)
(* ------------------------------------------------------------------------ *)

\* The ceiling of the code takes a vault of more than 10000 notes to trip.
\* The loop is the same for every ceiling, and here it runs against one that
\* the traversals of the vaults drawn can exceed.
ScaledCeiling == 2

BFSLoopScaled == BFSStep(ScaledCeiling)

NextScaled ==
    \/ Start
    \/ ProcessActiveNote
    \/ InitQueue
    \/ BFSLoopScaled
    \/ DailySelect
    \/ DailyLoop
    \/ Summary
    \/ CreateOutputFile

SpecScaled == Init /\ [][NextScaled]_vars

(* ------------------------------------------------------------------------ *)
(* The content helpers on the text of one note                              *)
(* ------------------------------------------------------------------------ *)

\* bound of the texts drawn: the number of fragments a text is made of
MaxFragments == 5

RECURSIVE concat(_)
concat(fragments) ==
    IF fragments = << >> THEN << >> ELSE Head(fragments) \o concat(Tail(fragments))

TextsOf(F) == { concat(fs) : fs \in UNION { [1..n -> F] : n \in 0..MaxFragments } }

\* notes with delimiter lines, dashes inside or at the end of a line, blank
\* lines and white space
BlockFragments == { frontmatterSeparator, <<"-", "-", "-">>, <<"a">>, <<"b">>, <<NL>>, <<" ">> }

\* notes with wiki links, aliases, nested brackets and white space
LinkFragments == { <<"[", "[">>, <<"]", "]">>, <<"|">>, <<"a">>, <<" ">> }

\* vault.read(file) returned the text
ReadNote ==
    /\ npc = "idle"
    /\ fullContent' \in TextsOf(BlockFragments) \cup TextsOf(LinkFragments)
    /\ npc' = "read"
    /\ UNCHANGED << host, preview, run, invocations, truncatedContent, cleanedContent, cleanedAgain >>

TruncateContent ==
    /\ npc = "read"
    /\ truncatedContent' = truncateContentAfterFirstSeparator(fullContent)
    /\ npc' = "truncated"
    /\ UNCHANGED << host, preview, run, invocations, fullContent, cleanedContent, cleanedAgain >>

RemoveWikiLinks ==
    /\ npc = "truncated"
    /\ cleanedContent' = removeWikiLinks(truncatedContent)
    /\ npc' = "cleaned"
    /\ UNCHANGED << host, preview, run, invocations, fullContent, truncatedContent, cleanedAgain >>

\* the cleaned text, saved as a note, is read and cleaned by a later run
CleanAgain ==
    /\ npc = "cleaned"
    /\ cleanedAgain' = removeWikiLinks(truncateContentAfterFirstSeparator(cleanedContent))
    /\ npc' = "again"
    /\ UNCHANGED << host, preview, run, invocations, fullContent, truncatedContent, cleanedContent >>

NextHelpers ==
    \/ ReadNote
    \/ TruncateContent
    \/ RemoveWikiLinks
    \/ CleanAgain

\* one note, no run of createContextFile under way
InitHelpers ==
    /\ activeFile = "A.md"
    /\ fileKind = KindsOf("A.md" :> "md")
    /\ resolvedLinks = LinksOf(<< >>)
    /\ fileCache = CachesOf("A.md" :> PublicNote)
    /\ unreadable = {}
    /\ settings = Settings({PUBLIC}, {}, {}, 1, FALSE, 1)
    /\ RunInit
    /\ HelpersIdle
    /\ OneInvocation

SpecHelpers == InitHelpers /\ [][NextHelpers]_vars

(* ------------------------------------------------------------------------ *)
(* Notions the properties are stated with                                   *)
(* ------------------------------------------------------------------------ *)

Range(seq) == { seq[i] : i \in DOMAIN seq }

\* the pieces of the output that carry the cleaned content of file p
ContentPieces(p) ==
    { i \in DOMAIN content :
        content[i].kind = "note" /\ content[i].body = "content" /\ content[i].path = p }

\* ... restricted to the sections with one of the given title prefixes
ContentPiecesTitled(p, titles) == { i \in ContentPieces(p) : content[i].title \in titles }

TraversalTitles == {"Source Note", "Linked Note"}

\* the files one outgoing link away from the notes of W
LinkedFrom(W) == UNION { Range(resolvedLinks[q]) : q \in {r \in W : fileKind[r] = "md"} }

\* Length of the shortest path of outgoing links from the active note to p,
\* given the set W of the files at most k links away; -1 if there is no path.
RECURSIVE DistanceFrom(_, _, _)
DistanceFrom(p, W, k) ==
    IF p \in W THEN k
    ELSE IF LinkedFrom(W) \subseteq W THEN -1
    ELSE DistanceFrom(p, W \cup LinkedFrom(W), k + 1)

Distance(p) == DistanceFrom(p, {activeFile}, 0)

Reachable(p) == Distance(p) >= 0

\* the run is past the BFS loop
TraversalOver == pc \in {"daily", "dailyLoop", "summary", "output", "done"}

(* ------------------------------------------------------------------------ *)
(* C1                                                                       *)
(* ------------------------------------------------------------------------ *)

\* the note has no privacy level: the key is absent, null or blank
NoPrivacyLevel(cache) ==
    \/ cache.privacy.t \in {"undefined", "null"}
    \/ cache.privacy.t = "string" /\ trim(cache.privacy.v) = << >>

\* The privacy rule as the claims state it: the note's privacy value, trimmed
\* and in lower case, is an allowed level; or the note has no privacy level
\* and the sentinel `none` is allowed.
StatedPrivacyPass(cache, s) ==
    \/ /\ cache.privacy.t = "string"
       /\ toLowerCase(trim(cache.privacy.v)) \in s.includePrivacyLevels
    \/ /\ NoPrivacyLevel(cache)
       /\ NONE \in s.includePrivacyLevels

\* the content sections of the output: their indices in content
ContentSections ==
    { i \in DOMAIN content : content[i].kind = "note" /\ content[i].body = "content" }

\* a content section was emitted after its channel's filter returned true
GatedByItsFilter(i) ==
    LET p == content[i].path
    IN  /\ content[i].title \in TraversalTitles =>
              /\ [path |-> p, filter |-> "passesFilters", result |-> TRUE] \in evaluated
              /\ passesFilters(fileCache[p], settings)
        /\ content[i].title = "Daily Note" =>
              /\ [path |-> p, filter |-> "passesPrivacyFilter", result |-> TRUE]
                     \in evaluated
              /\ passesPrivacyFilter(fileCache[p], settings)
        /\ ~fileCache[p].isNull

\* C1: a note's content is in the output only if the filter of the channel
\* that emitted it returned true for it -- passesFilters for the source and
\* the linked notes, passesPrivacyFilter for the recent daily notes -- and so
\* no note whose privacy value is outside the allowed levels, and which the
\* `none` sentinel does not cover, has its content in the output.
C1_ContentOnlyAfterItsFilter ==
    \A i \in ContentSections :
        /\ GatedByItsFilter(i)
        /\ StatedPrivacyPass(fileCache[content[i].path], settings)

\* C1 for the notes whose privacy entry is absent, null or a string
C1_HoldsOnStrings ==
    \A i \in ContentSections :
        /\ GatedByItsFilter(i)
        /\ fileCache[content[i].path].privacy.t \in {"undefined", "null", "string"} =>
              StatedPrivacyPass(fileCache[content[i].path], settings)

(* ------------------------------------------------------------------------ *)
(* C2                                                                       *)
(* ------------------------------------------------------------------------ *)

\* C2: the content of a file is in the output at most once, counting the
\* source section, the linked-note sections and the daily-note sections.
C2_ContentAtMostOnce ==
    \A p \in Paths : Cardinality(ContentPieces(p)) <= 1

\* a finished run that included a note which two expanded notes link to and
\* which links back to the active note
C2_Witness ==
    /\ pc = "done"
    /\ \E p \in Paths \ {activeFile} :
          /\ ContentPieces(p) # {}
          /\ activeFile \in Range(resolvedLinks[p])
          /\ Cardinality({ q \in Paths : /\ Reachable(q)
                                         /\ Distance(q) < maxDepth
                                         /\ p \in Range(resolvedLinks[q]) }) >= 2

\* a finished run in which the daily loop met a note the traversal included
C2_WitnessDaily ==
    /\ pc = "done"
    /\ \E p \in Paths :
          /\ ContentPiecesTitled(p, {"Linked Note"}) # {}
          /\ isPotentialDailyNote(p)

(* ------------------------------------------------------------------------ *)
(* C3                                                                       *)
(* ------------------------------------------------------------------------ *)

\* C3: a note whose tags, in lower case and without the marker, meet
\* excludedTags fails passesFilters and never has its content included by
\* the traversal, whatever requiredTags is.
C3_ExcludedTagNeverIncluded ==
    \A p \in Paths :
        fileTagsOf(fileCache[p]) \cap settings.excludedTags # {} =>
            /\ \A e \in evaluated :
                  (e.path = p /\ e.filter = "passesFilters") => ~e.result
            /\ ContentPiecesTitled(p, TraversalTitles) = {}

(* ------------------------------------------------------------------------ *)
(* C4                                                                       *)
(* ------------------------------------------------------------------------ *)

\* C4: passesPrivacyFilter returns true exactly when the note's privacy
\* value, trimmed and in lower case, is an allowed level, or the note has no
\* privacy level and `none` is allowed; a present value that is not allowed
\* fails even when `none` is allowed.
C4_PrivacyCheckExact ==
    \A e \in evaluated :
        e.filter = "passesPrivacyFilter" =>
            e.result = StatedPrivacyPass(fileCache[e.path], settings)

\* C4 restricted to the notes whose privacy entry is absent, null or a string
C4_ExactOnStrings ==
    \A e \in evaluated :
        (e.filter = "passesPrivacyFilter"
            /\ fileCache[e.path].privacy.t \in {"undefined", "null", "string"}) =>
            e.result = StatedPrivacyPass(fileCache[e.path], settings)

(* ------------------------------------------------------------------------ *)
(* C5                                                                       *)
(* ------------------------------------------------------------------------ *)

\* C5: passesFilters implies passesPrivacyFilter; with required tags it
\* returns true only for a note that has one of them; without required tags
\* it returns what passesPrivacyFilter returns.
C5_RequiredTagRule ==
    \A e \in evaluated :
        e.filter = "passesFilters" =>
            LET cache == fileCache[e.path]
            IN  /\ e.result => passesPrivacyFilter(cache, settings)
                /\ (settings.targetTags # {} /\ e.result) =>
                       fileTagsOf(cache) \cap settings.targetTags # {}
                /\ settings.targetTags = {} =>
                       (e.result <=> passesPrivacyFilter(cache, settings))

\* with required tags set, one note passed passesFilters and another one
\* that passes the privacy check was rejected
C5_Witness ==
    /\ settings.targetTags # {}
    /\ \E e \in evaluated : e.filter = "passesFilters" /\ e.result
    /\ \E e \in evaluated :
          /\ e.filter = "passesFilters" /\ ~e.result
          /\ passesPrivacyFilter(fileCache[e.path], settings)

(* ------------------------------------------------------------------------ *)
(* C6                                                                       *)
(* ------------------------------------------------------------------------ *)

RunNotices ==
    {"Creating context", CreatedNotice, CreatedInRootNotice, FolderNotCreatedNotice,
     NotAFolderNotice, AlreadyExistsNotice, ErrorNotice}

\* C6: for a note without metadata both filters are false under every
\* setting, the note is never read and never included, and the run goes on
\* without a notice about it.
C6_NoMetadataFailsClosed ==
    \A p \in Paths :
        fileCache[p].isNull =>
            /\ ~passesFilters(fileCache[p], settings)
            /\ ~passesPrivacyFilter(fileCache[p], settings)
            /\ \A e \in evaluated : e.path = p => ~e.result
            /\ p \notin Range(reads)
            /\ p \notin contentIncludedPaths
            /\ \A i \in DOMAIN content :
                  content[i].path = p => content[i].body \notin {"content", "error"}
            /\ (\E e \in evaluated : e.path = p) =>
                  /\ pc # "returned"
                  /\ Range(notices) \subseteq RunNotices

\* a finished run under settings that allow `none` and require no tag, in
\* which a linked note without metadata was filtered and a note behind it
\* was included and the text written
C6_Witness ==
    /\ pc = "done"
    /\ outputFile # << >>
    /\ NONE \in settings.includePrivacyLevels /\ settings.targetTags = {}
    /\ \E i \in DOMAIN dequeued, j \in DOMAIN dequeued :
          /\ i < j
          /\ fileKind[dequeued[i].path] = "md"
          /\ fileCache[dequeued[i].path].isNull
          /\ \E e \in evaluated : e.path = dequeued[i].path
          /\ ContentPieces(dequeued[j].path) # {}

(* ------------------------------------------------------------------------ *)
(* C7                                                                       *)
(* ------------------------------------------------------------------------ *)

\* C7: the depth of every entry taken off the queue, and the depth printed
\* in every linked-note section, is the length of the shortest path of
\* outgoing links from the active note to that file, and no file is taken
\* off the queue twice.
C7_RecordedDepthIsShortest ==
    /\ \A i \in DOMAIN dequeued :
          /\ Reachable(dequeued[i].path)
          /\ dequeued[i].depth = Distance(dequeued[i].path)
    /\ \A i, j \in DOMAIN dequeued : dequeued[i].path = dequeued[j].path => i = j
    /\ \A i \in DOMAIN content :
          (content[i].kind = "note" /\ content[i].title = "Linked Note") =>
              content[i].depth = Distance(content[i].path)

\* a finished run at depth 2 or more on a chain A -> b -> c in which b is
\* also linked from a second note d that A links to, and c is not linked
\* from A: c was taken off the queue at depth 2 and has a depth 2 section
C7_Witness ==
    /\ pc = "done"
    /\ maxDepth >= 2
    /\ \E b, c, d \in Paths \ {activeFile} :
          /\ b # c /\ b # d /\ c # d
          /\ b \in Range(resolvedLinks[activeFile])
          /\ d \in Range(resolvedLinks[activeFile])
          /\ b \in Range(resolvedLinks[d])
          /\ c \in Range(resolvedLinks[b])
          /\ c \notin Range(resolvedLinks[activeFile])
          /\ [path |-> c, depth |-> 2] \in Range(dequeued)
          /\ NotePiece("Linked Note", c, 2, "content") \in Range(content)

(* ------------------------------------------------------------------------ *)
(* C8                                                                       *)
(* ------------------------------------------------------------------------ *)

\* the depth at which the note p was taken off the queue (0: the active note)
DequeuedDepth(p) ==
    IF p = activeFile THEN 0
    ELSE (CHOOSE e \in Range(dequeued) : e.path = p).depth

\* C8: every queue entry has a depth from 1 to maxDepth; the links of a note
\* taken off the queue at maxDepth are not enumerated for enqueueing; the
\* traversal visits and emits no file farther than maxDepth from the active
\* note.
C8_DepthBound ==
    /\ \A i \in DOMAIN queue : 1 <= queue[i].depth /\ queue[i].depth <= maxDepth
    /\ \A i \in DOMAIN dequeued : 1 <= dequeued[i].depth /\ dequeued[i].depth <= maxDepth
    /\ \A i \in DOMAIN expanded :
          /\ expanded[i] = activeFile \/ expanded[i] \in { e.path : e \in Range(dequeued) }
          /\ DequeuedDepth(expanded[i]) < maxDepth
    /\ \A p \in traversalVisitedPaths : Reachable(p) /\ Distance(p) <= maxDepth
    /\ \A i \in DOMAIN content :
          (content[i].kind = "note" /\ content[i].title = "Linked Note") =>
              /\ Distance(content[i].path) <= maxDepth
              /\ 1 <= content[i].depth /\ content[i].depth <= maxDepth

\* a finished run in which a note taken off the queue at maxDepth links to a
\* note farther away than maxDepth
C8_Witness ==
    /\ pc = "done"
    /\ \E e \in Range(dequeued), p \in Paths :
          /\ e.depth = maxDepth
          /\ fileKind[e.path] = "md"
          /\ p \in Range(resolvedLinks[e.path])
          /\ Distance(p) > maxDepth

(* ------------------------------------------------------------------------ *)
(* C9                                                                       *)
(* ------------------------------------------------------------------------ *)

CeilingTripped == "Error: Traversal loop ran too long." \in Range(notices)

\* C9: once the traversal is over without the safety break, every markdown
\* file from 1 to maxDepth links away from the active note that passes
\* passesFilters and is readable has a linked-note content section; and the
\* active note has a content section exactly if it passes passesFilters and
\* is readable.
C9_QualifyingNotesIncluded ==
    /\ (TraversalOver /\ ~CeilingTripped) =>
          \A p \in Paths \ {activeFile} :
              ( /\ fileKind[p] = "md"
                /\ Reachable(p) /\ Distance(p) >= 1 /\ Distance(p) <= maxDepth
                /\ passesFilters(fileCache[p], settings)
                /\ p \notin unreadable ) =>
                  NotePiece("Linked Note", p, Distance(p), "content") \in Range(content)
    /\ pc \in {"links", "bfs", "daily", "dailyLoop", "summary", "output", "done"} =>
          ( NotePiece("Source Note", activeFile, 0, "content") \in Range(content)
              <=> ( passesFilters(fileCache[activeFile], settings)
                    /\ activeFile \notin unreadable ) )

\* a finished run with the source included and a note included at depth 2
\* that is reached only through a note the filters rejected
C9_Witness ==
    /\ pc = "done"
    /\ ContentPieces(activeFile) # {}
    /\ \E p, q \in Paths \ {activeFile} :
          /\ Distance(p) = 2
          /\ ContentPiecesTitled(p, {"Linked Note"}) # {}
          /\ p \in Range(resolvedLinks[q])
          /\ [path |-> q, filter |-> "passesFilters", result |-> FALSE] \in evaluated
          /\ \A r \in Paths : p \in Range(resolvedLinks[r]) => r = q

(* ------------------------------------------------------------------------ *)
(* C10                                                                      *)
(* ------------------------------------------------------------------------ *)

\* the daily notes the run selects
DailySelection ==
    slice0(sortByBasenameDescending({p \in Paths : isPotentialDailyNote(p)}),
           settings.numberOfRecentDays)

\* C10: after the daily loop, a selected daily note that the traversal did
\* not include has a daily-note content section exactly if it passes
\* passesPrivacyFilter and is readable, whatever the tag settings are.
C10_DailyPrivacyOnly ==
    (pc \in {"summary", "output", "done"} /\ settings.includeRecentDailyNotes) =>
        \A p \in Range(DailySelection) :
            ContentPiecesTitled(p, TraversalTitles) = {} =>
                ( NotePiece("Daily Note", p, 0, "content") \in Range(content)
                    <=> ( passesPrivacyFilter(fileCache[p], settings)
                          /\ p \notin unreadable ) )

\* a finished run with required tags in which a daily note that the
\* traversal had rejected was included by the daily loop
C10_Witness ==
    /\ pc = "done"
    /\ settings.targetTags # {}
    /\ \E p \in Paths :
          /\ [path |-> p, filter |-> "passesFilters", result |-> FALSE] \in evaluated
          /\ NotePiece("Daily Note", p, 0, "content") \in Range(content)

(* ------------------------------------------------------------------------ *)
(* C11                                                                      *)
(* ------------------------------------------------------------------------ *)

\* the notes named as daily notes that carry the daily tag, and how many of
\* them have a greater name than p
DailyCandidates == { p \in Paths : isPotentialDailyNote(p) }

NewerCandidates(p) ==
    { q \in DailyCandidates : localeLess(basenameOf(p), basenameOf(q)) }

MostRecent(n) == { p \in DailyCandidates : Cardinality(NewerCandidates(p)) < n }

\* the positions of the daily-note sections of the text
DailySections ==
    { i \in DOMAIN content : content[i].kind = "note" /\ content[i].title = "Daily Note" }

DailyChannelStarted == pc \in {"dailyLoop", "summary", "output", "done"}

\* C11: with the setting off the daily channel leaves no trace; with it on,
\* only the numberOfRecentDays candidates of greatest name are filtered,
\* read or emitted, each of them is considered by the end of the loop, and
\* their sections follow each other from the newest to the oldest.
C11_MostRecentOnly ==
    /\ ~settings.includeRecentDailyNotes =>
          /\ DailySections = {}
          /\ \A i \in DOMAIN content : content[i].kind # "placeholder"
                                       /\ content[i].title # "Recent Daily Notes"
          /\ \A e \in evaluated : e.filter # "passesPrivacyFilter"
          /\ dailyNotesToProcess = << >>
    /\ ~DailyChannelStarted => DailySections = {}
    /\ (settings.includeRecentDailyNotes /\ DailyChannelStarted) =>
          /\ Range(dailyNotesToProcess) \subseteq MostRecent(settings.numberOfRecentDays)
          /\ \A i \in DailySections :
                content[i].path \in MostRecent(settings.numberOfRecentDays)
          /\ \A e \in evaluated :
                e.filter = "passesPrivacyFilter" =>
                    e.path \in MostRecent(settings.numberOfRecentDays)
          /\ \A i, j \in DailySections :
                i < j => localeLess(basenameOf(content[j].path), basenameOf(content[i].path))
          /\ \A i \in DailySections, k \in DOMAIN dailyNotesToProcess :
                localeLess(basenameOf(dailyNotesToProcess[k]), basenameOf(content[i].path))
          /\ \A k, l \in DOMAIN dailyNotesToProcess :
                k < l => localeLess(basenameOf(dailyNotesToProcess[l]),
                                    basenameOf(dailyNotesToProcess[k]))
          /\ \A p \in MostRecent(settings.numberOfRecentDays) :
                \/ p \in Range(dailyNotesToProcess)
                \/ p \in contentIncludedPaths
                \/ \E e \in evaluated : e.path = p /\ e.filter = "passesPrivacyFilter"

\* a finished run with one recent day and two candidates: the newest one
\* failed to read, and the older one, which would pass the privacy filter
\* and is readable, left no section
C11_Witness ==
    /\ pc = "done"
    /\ settings.includeRecentDailyNotes
    /\ settings.numberOfRecentDays = 1
    /\ \E p, q \in DailyCandidates :
          /\ q \in NewerCandidates(p)
          /\ NotePiece("Daily Note", q, 0, "error") \in Range(content)
          /\ passesPrivacyFilter(fileCache[p], settings)
          /\ p \notin unreadable
          /\ ContentPieces(p) = {}

(* ------------------------------------------------------------------------ *)
(* C12                                                                      *)
(* ------------------------------------------------------------------------ *)

\* the sections that hold the read-error line
ErrorSections == { i \in DOMAIN content : content[i].kind = "note" /\ content[i].body = "error" }

\* the filter of the channel that wrote a section with this title prefix
FilterOfTitle(title) ==
    IF title = "Daily Note" THEN "passesPrivacyFilter" ELSE "passesFilters"

RunOver == pc \in {"done", "returned"}

\* C12: a note that passed its filter and could not be read has the error
\* line as its section, is not in contentIncludedPaths and is not counted;
\* the run never stops at it: until the run is over it stands at one of its
\* steps, it does not end by the early return, and at its end the queue and
\* the daily list are used up and createOutputFile was called.
C12_ReadErrorIsLocal ==
    /\ \A i \in ErrorSections :
          /\ content[i].path \in unreadable
          /\ content[i].path \in Range(reads)
          /\ [path |-> content[i].path, filter |-> FilterOfTitle(content[i].title),
              result |-> TRUE] \in evaluated
    /\ \A i \in DOMAIN reads :
          reads[i] \in unreadable =>
              /\ \E k \in ErrorSections : content[k].path = reads[i]
              /\ ContentPieces(reads[i]) = {}
              /\ reads[i] \notin contentIncludedPaths
    /\ includedNotesCount = Cardinality(contentIncludedPaths)
    /\ contentIncludedPaths \cap unreadable = {}
    /\ reads # << >> => pc # "returned"
    /\ ~RunOver => pc \in {"idle", "source", "links", "bfs", "daily", "dailyLoop",
                         "summary", "output"}
    /\ pc = "done" =>
          /\ queue = << >> \/ CeilingTripped
          /\ dailyNotesToProcess = << >>
          /\ notices # << >>
          /\ notices[Len(notices)] \in
                {CreatedNotice, CreatedInRootNotice, AlreadyExistsNotice, ErrorNotice}
          /\ notices[Len(notices)] \in {CreatedNotice, CreatedInRootNotice} =>
                outputFile = content

\* a finished run in which a linked note failed to read, a note enqueued
\* after it was included, and the text, error line included, was written
C12_Witness ==
    /\ pc = "done"
    /\ outputFile = content
    /\ \E i \in ErrorSections, j \in DOMAIN content :
          /\ content[i].title = "Linked Note"
          /\ i < j
          /\ content[j].kind = "note" /\ content[j].body = "content"
          /\ content[j].title = "Linked Note"
          /\ content[j].depth > content[i].depth

(* ------------------------------------------------------------------------ *)
(* C13                                                                      *)
(* ------------------------------------------------------------------------ *)

\* the depth setting is not a number that is at least 1
DepthNotAtLeastOne == ~(settings.linkDepth.t = "number" /\ settings.linkDepth.v >= 1)

\* C13: with such a depth setting the run stands before its first step or
\* has returned; no filter was called, nothing was read, no text was
\* assembled, the traversal has no queue and no visited note, and
\* createOutputFile was not called.
C13_InvalidDepthRejected ==
    DepthNotAtLeastOne =>
        /\ pc \in {"idle", "returned"}
        /\ evaluated = {}
        /\ reads = << >>
        /\ content = << >>
        /\ queue = << >> /\ dequeued = << >> /\ expanded = << >>
        /\ traversalVisitedPaths = {} /\ contentIncludedPaths = {}
        /\ outputFile = << >>
        /\ \A i \in DOMAIN notices :
              notices[i] \in {"Please open a Markdown note first.",
                              "Error: Invalid Link Depth setting"}

\* a markdown note is open, the depth setting is not a number at least 1,
\* and the run has returned with the notice about the depth
C13_Witness ==
    /\ pc = "returned"
    /\ DepthNotAtLeastOne
    /\ activeFile # NoFile
    /\ resolvedLinks[activeFile] # << >>
    /\ notices = << "Error: Invalid Link Depth setting" >>

(* ------------------------------------------------------------------------ *)
(* C14                                                                      *)
(* ------------------------------------------------------------------------ *)

IsPrefix(s, t) == Len(s) <= Len(t) /\ SubSeq(t, 1, Len(s)) = s

\* the state once the safety break has stopped the loop
AfterCeilingTrip ==
    /\ TraversalOver
    /\ iteration = ScaledCeiling + 1
    /\ Len(dequeued) = ScaledCeiling
    /\ queue # << >>
    /\ Cardinality({ i \in DOMAIN notices :
                        notices[i] = "Error: Traversal loop ran too long." }) = 1
    /\ \A k \in DOMAIN dequeued :
          ( /\ fileKind[dequeued[k].path] = "md"
            /\ passesFilters(fileCache[dequeued[k].path], settings)
            /\ dequeued[k].path \notin unreadable ) =>
              NotePiece("Linked Note", dequeued[k].path, dequeued[k].depth, "content")
                  \in Range(content)
    /\ pc = "done" =>
          /\ settings.includeRecentDailyNotes =>
                DailyHeading(settings.numberOfRecentDays) \in Range(content)
          /\ dailyNotesToProcess = << >>
          /\ notices[Len(notices)] \in
                {CreatedNotice, CreatedInRootNotice, AlreadyExistsNotice, ErrorNotice}
          /\ notices[Len(notices)] \in {CreatedNotice, CreatedInRootNotice} =>
                outputFile = content

\* C14: no run takes more entries off the queue than the ceiling; once the
\* ceiling has tripped the loop is over with entries left in the queue, the
\* notice is shown once, the section of every note processed before the
\* trip is in the text, and the finished run went through the daily channel
\* and called createOutputFile; no step ever removes or changes a piece of
\* the text.
C14_CeilingKeepsWork ==
    /\ [](/\ Len(dequeued) <= ScaledCeiling
          /\ iteration <= ScaledCeiling + 1
          /\ CeilingTripped => AfterCeilingTrip)
    /\ [][IsPrefix(content, content')]_vars

\* a finished run in which the ceiling tripped with an entry left in the
\* queue: the text written holds the sections of the two notes processed
\* before the trip and, after them, the section of a daily note
C14_Witness ==
    /\ pc = "done"
    /\ CeilingTripped
    /\ queue # << >>
    /\ outputFile = content
    /\ \E i, j, k \in DOMAIN outputFile :
          /\ i < j /\ j < k
          /\ outputFile[i] = NotePiece("Linked Note", dequeued[1].path, dequeued[1].depth, "content")
          /\ outputFile[j] = NotePiece("Linked Note", dequeued[2].path, dequeued[2].depth, "content")
          /\ outputFile[k].title = "Daily Note" /\ outputFile[k].body = "content"

(* ------------------------------------------------------------------------ *)
(* C15                                                                      *)
(* ------------------------------------------------------------------------ *)

\* no path was taken off the queue twice
DequeuedOnce ==
    \A i, j \in DOMAIN dequeued : dequeued[i].path = dequeued[j].path => i = j

\* C15: on link graphs with self-links and cycles the safety break never
\* trips, no path is dequeued twice, the visited set never loses a path, a
\* run in the loop comes to the end of the loop with the queue empty, and
\* every run comes to its end.
C15_TraversalTerminates ==
    /\ [](~CeilingTripped /\ DequeuedOnce)
    /\ [][traversalVisitedPaths \subseteq traversalVisitedPaths']_vars
    /\ (pc = "bfs") ~> (pc = "daily" /\ queue = << >>)
    /\ <>(pc = "done")

\* a finished run over a graph in which the source links to itself and a
\* linked note links back to the source: every note visited was dequeued
\* once and the queue is empty
C15_Witness ==
    /\ pc = "done"
    /\ activeFile \in Range(resolvedLinks[activeFile])
    /\ \E b \in Range(resolvedLinks[activeFile]) \ {activeFile} :
          /\ activeFile \in Range(resolvedLinks[b])
          /\ b \in { e.path : e \in Range(dequeued) }
    /\ maxDepth >= 2
    /\ queue = << >>
    /\ ~CeilingTripped
    /\ { e.path : e \in Range(dequeued) } = traversalVisitedPaths \ {activeFile}

(* ------------------------------------------------------------------------ *)
(* Notes read line by line                                                  *)
(* ------------------------------------------------------------------------ *)

\* the positions where a line of the text starts
LineStarts(text) == {0} \cup { i \in 1..Len(text) : text[i] = NL }

\* the line that starts at position i, without its line end
LineAt(text, i) == substring2(text, i, i + runOf(text, i, {NL}))

\* the position after the line that starts at i and after its line end
AfterLine(text, i) ==
    LET end == i + runOf(text, i, {NL}) + 1
    IN  IF end > Len(text) THEN Len(text) ELSE end

Least(S) == CHOOSE i \in S : \A j \in S : i <= j

\* the line is the three dashes and nothing else
IsDelimiterLine(text, i) == LineAt(text, i) = <<"-", "-", "-">>

\* the line is the three dashes, with or without white space around them
IsSeparatorLine(text, i) == trim(LineAt(text, i)) = <<"-", "-", "-">>

\* the text opens with a delimiter line that is followed by further lines
OpensBlock(text) == IsDelimiterLine(text, 0) /\ Len(text) > 3

\* the later delimiter lines
ClosingLines(text) == { i \in LineStarts(text) : i > 0 /\ IsDelimiterLine(text, i) }

WellFormedBlock(text) == OpensBlock(text) /\ ClosingLines(text) # {}
MalformedBlock(text) == OpensBlock(text) /\ ClosingLines(text) = {}

\* the text up to its first separator line, all of it when there is none
UpToSeparator(text) ==
    LET seps == { i \in LineStarts(text) : IsSeparatorLine(text, i) }
    IN  IF seps = {} THEN text ELSE substring2(text, 0, Least(seps))

\* t occurs in s
Contains(s, t) == \E i \in 0..(Len(s) - Len(t)) : substring2(s, i, i + Len(t)) = t

Truncated == npc \in {"truncated", "cleaned", "again"}
Cleaned == npc \in {"cleaned", "again"}

(* ------------------------------------------------------------------------ *)
(* C16                                                                      *)
(* ------------------------------------------------------------------------ *)

\* C16: when the text opens with a delimiter line and no later line is a
\* delimiter line, the text that follows the opening line, up to its first
\* separator line and trimmed, is found in the truncated content.
C16_MalformedBlockKeepsText ==
    (Truncated /\ MalformedBlock(fullContent)) =>
        Contains(truncatedContent,
                 trim(UpToSeparator(substring(fullContent, Len(frontmatterSeparator)))))

(* ------------------------------------------------------------------------ *)
(* C17                                                                      *)
(* ------------------------------------------------------------------------ *)

\* what follows the first closing delimiter line of a well-formed block
BodyAfterBlock(text) == substring(text, AfterLine(text, Least(ClosingLines(text))))

\* C17: for a text with a well-formed block the truncated content is what
\* follows the closing delimiter line, up to the first separator line,
\* trimmed.
C17_BodyAfterBlockUpToSeparator ==
    (Truncated /\ WellFormedBlock(fullContent)) =>
        truncatedContent = trim(UpToSeparator(BodyAfterBlock(fullContent)))

\* ... which holds for the texts in which the three dashes never end a line
\* they do not start: there the second occurrence of the dashes and a line
\* end, which is what the code looks for, is the closing delimiter line
DashesOnlyStartLines(text) ==
    \A i \in 0..(Len(text) - 4) :
        substring2(text, i, i + 4) = frontmatterSeparator => i \in LineStarts(text)

C17_HoldsOnPlainBlocks ==
    (Truncated /\ WellFormedBlock(fullContent) /\ DashesOnlyStartLines(fullContent)) =>
        truncatedContent = trim(UpToSeparator(BodyAfterBlock(fullContent)))

(* ------------------------------------------------------------------------ *)
(* C18                                                                      *)
(* ------------------------------------------------------------------------ *)

\* two opening brackets, some text without a closing bracket, two closing
\* brackets
LinkOccurrence(text) ==
    \E i \in 0..(Len(text) - 5), j \in 3..Len(text) :
        /\ i + 3 <= j
        /\ substring2(text, i, i + 2) = <<"[", "[">>
        /\ substring2(text, j, j + 2) = <<"]", "]">>
        /\ \A k \in (i + 3)..j : text[k] # "]"

Plain(text) == \A k \in DOMAIN text : text[k] \notin {"[", "]", "|"}

\* C18: a text without brackets is left as it is, a text that is one link
\* becomes its target, or its display text when it has one, and no link
\* occurrence is left in the cleaned content.
C18_LinksFlattened ==
    Cleaned =>
        /\ Plain(truncatedContent) => cleanedContent = truncatedContent
        /\ \A t \in {<<"a">>, <<"a", " ", "a">>} :
              /\ truncatedContent = <<"[", "[">> \o t \o <<"]", "]">> => cleanedContent = t
              /\ truncatedContent = <<"[", "[", "a", "|">> \o t \o <<"]", "]">> =>
                    cleanedContent = t
        /\ ~LinkOccurrence(cleanedContent)

\* ... which holds when no link of the text has an opening bracket inside
NoBracketInsideLink(text) ==
    \A i \in 0..(Len(text) - 2) :
        wikiLinkAt(text, i).matched =>
            \A k \in (i + 3)..wikiLinkAt(text, i).end : text[k] # "["

C18_HoldsOnFlatLinks ==
    (Cleaned /\ NoBracketInsideLink(truncatedContent)) => ~LinkOccurrence(cleanedContent)

(* ------------------------------------------------------------------------ *)
(* C19                                                                      *)
(* ------------------------------------------------------------------------ *)

\* C19: a text that opens no block and has no link occurrence comes out of
\* the two helpers unchanged, and the two helpers applied to their own
\* result return it unchanged.
C19_NormalizationIdempotent ==
    /\ (Cleaned /\ ~OpensBlock(fullContent) /\ ~LinkOccurrence(fullContent)) =>
          cleanedContent = fullContent
    /\ npc = "again" => cleanedAgain = cleanedContent

\* the second half alone
C19_SecondPassChangesNothing == npc = "again" => cleanedAgain = cleanedContent

(* ------------------------------------------------------------------------ *)
(* C20                                                                      *)
(* ------------------------------------------------------------------------ *)

\* the notes that have a content section in the text, whatever the channel
ContentIncluded == { p \in Paths : ContentPieces(p) # {} }

SummarySections == { i \in DOMAIN content : content[i].kind = "summary" }

SummaryChosen == pc \in {"output", "done"}

\* C20: no summary line is in the text before the summary step; after it,
\* the "no notes" line is there exactly if no note has a content section,
\* the "no linked notes" line exactly if the source is the only note with a
\* content section and has a link, and the line, if any, is the one last
\* piece of the text.
C20_SummaryLine ==
    /\ ~SummaryChosen => SummarySections = {}
    /\ SummaryChosen =>
          /\ NoNotesSummary \in Range(content) <=> ContentIncluded = {}
          /\ NoLinkedSummary \in Range(content) <=>
                 (ContentIncluded = {activeFile} /\ resolvedLinks[activeFile] # << >>)
          /\ SummarySections \subseteq {Len(content)}
          /\ \A i \in SummarySections : content[i] \in {NoNotesSummary, NoLinkedSummary}

\* Scenario A, finished: a public source, public allowed, depth 1, one link
\* to a secret note; the text is the header, the source's content, the
\* heading of the linked notes and the "no linked notes" line
C20_Witness ==
    /\ pc = "done"
    /\ maxDepth = 1
    /\ settings.includePrivacyLevels = {PUBLIC}
    /\ \E b \in Paths :
          /\ resolvedLinks[activeFile] = << b >>
          /\ fileKind[b] = "md"
          /\ fileCache[b].privacy = JSString(SECRET)
    /\ content = << HeaderPiece(activeFile, 1),
                    NotePiece("Source Note", activeFile, 0, "content"),
                    LinkedHeading(1),
                    NoLinkedSummary >>

(* ------------------------------------------------------------------------ *)
(* C21                                                                      *)
(* ------------------------------------------------------------------------ *)

\* the part of the text a piece belongs to: 1 the header, 2 the source
\* section, 3 the linked notes, 4 the recent daily notes, 5 the summary
PartOf(piece) ==
    IF piece.kind = "header" THEN 1
    ELSE IF piece.kind = "note" /\ piece.title = "Source Note" THEN 2
    ELSE IF piece.title \in {"Linked Notes", "Linked Note"} THEN 3
    ELSE IF piece.kind = "summary" THEN 5
    ELSE 4

PiecesOfPart(n) == { i \in DOMAIN content : PartOf(content[i]) = n }

HeadingsTitled(title) ==
    { i \in DOMAIN content : content[i].kind = "heading" /\ content[i].title = title }

\* the sink took the text
TextWritten ==
    /\ pc = "done"
    /\ notices[Len(notices)] \in {CreatedNotice, CreatedInRootNotice}

\* the parts follow each other in the text, each part that the run is past
\* is there as the code lays it down, and what was written is the text
PartsInOrder ==
    /\ \A i, j \in DOMAIN content : i < j => PartOf(content[i]) <= PartOf(content[j])
    /\ pc \in {"idle", "returned"} => content = << >>
    /\ pc \notin {"idle", "returned"} =>
          /\ content[1] = HeaderPiece(activeFile, maxDepth)
          /\ PiecesOfPart(1) = {1}
    /\ pc = "source" => Len(content) = 1
    /\ pc \notin {"idle", "returned", "source"} =>
          /\ PiecesOfPart(2) = {2}
          /\ content[2].path = activeFile
    /\ pc = "links" => Len(content) = 2
    /\ pc \notin {"idle", "returned", "source", "links"} =>
          /\ content[3] = LinkedHeading(maxDepth)
          /\ HeadingsTitled("Linked Notes") = {3}
    /\ ~DailyChannelStarted => PiecesOfPart(4) = {}
    /\ DailyChannelStarted =>
          IF settings.includeRecentDailyNotes
          THEN /\ Cardinality(HeadingsTitled("Recent Daily Notes")) = 1
               /\ \A h \in HeadingsTitled("Recent Daily Notes"), i \in PiecesOfPart(4) : h <= i
          ELSE PiecesOfPart(4) = {}
    /\ ~SummaryChosen => PiecesOfPart(5) = {}
    /\ Cardinality(PiecesOfPart(5)) <= 1
    /\ outputFile \in {<< >>, content}
    /\ TextWritten => outputFile = content

\* C21: the text is the header, then the source section, then the linked
\* notes, then the recent daily notes (only with the setting on), then the
\* summary line; the text only grows at its end, so nothing of an earlier
\* part comes after a later part has begun, and the text createOutputFile
\* writes is this text.
C21_PartsInOrder ==
    /\ [] PartsInOrder
    /\ [][IsPrefix(content, content')]_vars

\* a text with all five parts was written
C21_Witness ==
    /\ TextWritten
    /\ outputFile = content
    /\ \A n \in 1..5 : PiecesOfPart(n) # {}
    /\ \E i \in PiecesOfPart(3) : content[i].kind = "note"
    /\ \E i \in PiecesOfPart(4) : content[i].kind = "note"

(* ------------------------------------------------------------------------ *)
(* The command invoked again while a run is suspended                       *)
(* ------------------------------------------------------------------------ *)

\* The locals of one invocation of createContextFile with the Notices it
\* showed and its history: what an invocation suspended at an await keeps.
Frame ==
    [pc |-> pc, maxDepth |-> maxDepth, content |-> content,
     contentIncludedPaths |-> contentIncludedPaths,
     traversalVisitedPaths |-> traversalVisitedPaths,
     includedNotesCount |-> includedNotesCount, iteration |-> iteration, queue |-> queue,
     processedLinkCandidates |-> processedLinkCandidates,
     dailyNotesToProcess |-> dailyNotesToProcess,
     dailyNotesAddedCount |-> dailyNotesAddedCount, notices |-> notices,
     evaluated |-> evaluated, reads |-> reads, dequeued |-> dequeued, expanded |-> expanded]

\* the locals of an invocation that has not run its first statement
FreshFrame ==
    [pc |-> "idle", maxDepth |-> 0, content |-> << >>, contentIncludedPaths |-> {},
     traversalVisitedPaths |-> {}, includedNotesCount |-> 0, iteration |-> 0,
     queue |-> << >>, processedLinkCandidates |-> 0, dailyNotesToProcess |-> << >>,
     dailyNotesAddedCount |-> 0, notices |-> << >>,
     evaluated |-> {}, reads |-> << >>, dequeued |-> << >>, expanded |-> << >>]

\* Resume with contentIncludedPaths kept in one place for all invocations
Resume_InclusionShared(f) ==
    /\ pc' = f.pc
    /\ maxDepth' = f.maxDepth
    /\ content' = f.content
    /\ contentIncludedPaths' = contentIncludedPaths
    /\ traversalVisitedPaths' = f.traversalVisitedPaths
    /\ includedNotesCount' = f.includedNotesCount
    /\ iteration' = f.iteration
    /\ queue' = f.queue
    /\ processedLinkCandidates' = f.processedLinkCandidates
    /\ dailyNotesToProcess' = f.dailyNotesToProcess
    /\ dailyNotesAddedCount' = f.dailyNotesAddedCount
    /\ notices' = f.notices
    /\ evaluated' = f.evaluated
    /\ reads' = f.reads
    /\ dequeued' = f.dequeued
    /\ expanded' = f.expanded

\* the event loop goes on with the invocation that has the frame f
Resume(f) ==
    /\ pc' = f.pc
    /\ maxDepth' = f.maxDepth
    /\ content' = f.content
    /\ contentIncludedPaths' = f.contentIncludedPaths
    /\ traversalVisitedPaths' = f.traversalVisitedPaths
    /\ includedNotesCount' = f.includedNotesCount
    /\ iteration' = f.iteration
    /\ queue' = f.queue
    /\ processedLinkCandidates' = f.processedLinkCandidates
    /\ dailyNotesToProcess' = f.dailyNotesToProcess
    /\ dailyNotesAddedCount' = f.dailyNotesAddedCount
    /\ notices' = f.notices
    /\ evaluated' = f.evaluated
    /\ reads' = f.reads
    /\ dequeued' = f.dequeued
    /\ expanded' = f.expanded

FrameOver(f) == f.pc \in {"done", "returned"}

\* The command callback runs createContextFile twice more once a first run
\* has ended: the text of the first run is kept for comparison, one of the
\* new invocations runs, the other waits.
Invoke ==
    /\ finished = << >>
    /\ parked = NoFrame
    /\ pc = "done"
    /\ finished' = << content >>
    /\ parked' = FreshFrame
    /\ Resume(FreshFrame)
    /\ UNCHANGED << host, preview, helpers, outputFile, loggedError >>

\* The running invocation is suspended at an await (or has returned) and the
\* event loop goes on with the other one: each has its own locals.
Yield ==
    /\ parked # NoFrame
    /\ ~FrameOver(parked)
    /\ parked' = Frame
    /\ Resume(parked)
    /\ UNCHANGED << host, preview, helpers, finished, outputFile, loggedError >>

NextInvocations ==
    \/ Start
    \/ ProcessActiveNote
    \/ InitQueue
    \/ BFSLoop
    \/ DailySelect
    \/ DailyLoop
    \/ Summary
    \/ CreateOutputFile
    \/ Invoke
    \/ Yield

\* Vaults for the invocations: the source links to B and C in either order,
\* B and C link on, to the source, to each other, to D or to a daily note;
\* C may be unreadable; at every depth, with and without the daily channel.
InitInvocations ==
    /\ activeFile = "A.md"
    /\ fileKind = KindsOf([p \in GraphNotes \cup {"2024-01-02.md"} |-> "md"])
    /\ \E la \in {<<"B.md", "C.md">>, <<"C.md", "B.md">>},
          lb \in {<<"D.md">>, <<"C.md", "D.md">>, <<"A.md", "D.md">>},
          lc \in {<< >>, <<"D.md", "B.md">>, <<"2024-01-02.md">>} :
          resolvedLinks = LinksOf("A.md" :> la @@ "B.md" :> lb @@ "C.md" :> lc)
    /\ fileCache = CachesOf([p \in GraphNotes |-> PublicNote] @@
                            "2024-01-02.md" :> Cache(JSString(PUBLIC), {RAW_DAILY}))
    /\ unreadable \in {{}, {"C.md"}}
    /\ \E depth \in 1..MaxLinkDepth, recent \in BOOLEAN :
          settings = Settings({PUBLIC}, {}, {}, depth, recent, 1)
    /\ RunInit
    /\ HelpersIdle
    /\ OneInvocation

SpecInvocations == InitInvocations /\ [][NextInvocations]_vars

(* ------------------------------------------------------------------------ *)
(* C22                                                                      *)
(* ------------------------------------------------------------------------ *)

LinkedSections ==
    { i \in DOMAIN content : content[i].kind = "note" /\ content[i].title = "Linked Note" }

IndexIn(seq, x) == Least({ i \in DOMAIN seq : seq[i] = x })

\* the notes among those expanded so far that link to p
ParentsOf(p) == { k \in DOMAIN expanded : p \in Range(resolvedLinks[expanded[k]]) }

\* when p was discovered: the first expansion that met it, and its place in
\* the links enumerated there
DiscoveryRank(p) ==
    LET k == Least(ParentsOf(p))
    IN  << k, IndexIn(resolvedLinks[expanded[k]], p) >>

DiscoveredBefore(p, q) ==
    \/ DiscoveryRank(p)[1] < DiscoveryRank(q)[1]
    \/ /\ DiscoveryRank(p)[1] = DiscoveryRank(q)[1]
       /\ DiscoveryRank(p)[2] < DiscoveryRank(q)[2]

\* C22: the sections of the linked notes stand in non-decreasing order of the
\* depth they print, two sections stand in the order in which their notes
\* were discovered, and every run that ends on the same vault under the same
\* settings as an earlier run has assembled the text of that run.
C22_DepthThenDiscoveryOrder ==
    /\ \A i, j \in LinkedSections :
          i < j =>
             /\ content[i].depth <= content[j].depth
             /\ ParentsOf(content[i].path) # {}
             /\ ParentsOf(content[j].path) # {}
             /\ DiscoveredBefore(content[i].path, content[j].path)
    /\ finished # << >> =>
          /\ pc = "done" => content = finished[1]
          /\ (parked # NoFrame /\ parked.pc = "done") => parked.content = finished[1]

\* a later run ended with the text of the first one, in which two linked
\* notes of one depth are followed by a deeper one
C22_Witness ==
    /\ finished # << >>
    /\ pc = "done"
    /\ content = finished[1]
    /\ \E i, j, k \in LinkedSections :
          /\ i < j /\ j < k
          /\ content[i].depth = content[j].depth
          /\ content[j].depth < content[k].depth

(* ------------------------------------------------------------------------ *)
(* C23                                                                      *)
(* ------------------------------------------------------------------------ *)

\* createOutputFile caught an error of vault.create
SinkFailed == pc = "done" /\ loggedError # NoError

\* the export folder could not be used and the file went to the vault root
FellBackToRoot ==
    /\ pc = "done"
    /\ \E i \in DOMAIN notices : notices[i] \in {FolderNotCreatedNotice, NotAFolderNotice}

\* C23: when createOutputFile fails the run still ends, the message of the
\* error is among the Notices shown, and the text is in the vault or is kept
\* for another attempt.  createContextFile keeps the text in a local and
\* returns after createOutputFile, so after the run the text is where
\* createOutputFile wrote it or nowhere.
C23_SinkFailureKeepsText ==
    SinkFailed =>
        /\ loggedError \in Range(notices)
        /\ outputFile = content

\* What holds of a failing sink: the error is caught, one of the two error
\* Notices ends the run, nothing was written; and a folder that cannot be
\* used is followed by an attempt in the vault root.
C23_SinkFailureIsCaught ==
    /\ SinkFailed =>
          /\ notices[Len(notices)] \in {AlreadyExistsNotice, ErrorNotice}
          /\ outputFile = << >>
    /\ (FellBackToRoot /\ ~SinkFailed) =>
          /\ notices[Len(notices)] = CreatedInRootNotice
          /\ outputFile = content

(* ------------------------------------------------------------------------ *)
(* C24                                                                      *)
(* ------------------------------------------------------------------------ *)

\* every entry pushed on the queue so far: those taken off and those waiting
Enqueued == dequeued \o queue

EnqueuedPaths == { Enqueued[i].path : i \in DOMAIN Enqueued }

\* the step pushes on the queue
Enqueues == Len(dequeued') + Len(queue') > Len(dequeued) + Len(queue)

QueueDiscipline ==
    /\ \A i, j \in DOMAIN Enqueued : Enqueued[i].path = Enqueued[j].path => i = j
    /\ \A i \in DOMAIN queue : queue[i].path \in traversalVisitedPaths
    /\ Enqueued # << >> => activeFile \in traversalVisitedPaths
    /\ activeFile \notin EnqueuedPaths
    /\ \A i \in LinkedSections : content[i].path # activeFile

\* C24: no path is pushed on the queue twice, every path waiting in the
\* queue is in traversalVisitedPaths, the source is never pushed and never
\* has a Linked Note section; no step removes a path from
\* traversalVisitedPaths, and every step that pushes finds the source there.
C24_EnqueuedOnce ==
    /\ [] QueueDiscipline
    /\ [][/\ traversalVisitedPaths \subseteq traversalVisitedPaths'
          /\ Enqueues => activeFile \in traversalVisitedPaths]_vars

\* the traversal is over in a vault where the source links to itself and a
\* linked note links back to it, and that note was expanded
C24_Witness ==
    /\ TraversalOver
    /\ activeFile \in Range(resolvedLinks[activeFile])
    /\ \E i \in DOMAIN expanded :
          /\ expanded[i] # activeFile
          /\ activeFile \in Range(resolvedLinks[expanded[i]])
    /\ Len(dequeued) >= 2

(* ------------------------------------------------------------------------ *)
(* C25                                                                      *)
(* ------------------------------------------------------------------------ *)

\* the links of p were enumerated as those of a note of this depth: each
\* target is the source or was pushed, at most one level deeper, and one
\* level deeper exactly where this enumeration was the first to meet it
LinksEnqueuedFrom(p, depth) ==
    /\ p \in Range(expanded)
    /\ \A t \in Range(resolvedLinks[p]) :
          t # activeFile =>
             /\ t \in traversalVisitedPaths
             /\ \E i \in DOMAIN Enqueued :
                   /\ Enqueued[i].path = t
                   /\ Enqueued[i].depth <= depth + 1
                   /\ expanded[Least(ParentsOf(t))] = p => Enqueued[i].depth = depth + 1

\* the filter call made on p failed
FilteredOut(p) == \E e \in evaluated : e.path = p /\ e.filter = "passesFilters" /\ ~e.result

\* p passed its filter and the read threw
ReadFailed(p) == \E i \in ErrorSections : content[i].path = p

\* every path of links from the source to p of at most maxDepth links goes
\* through a note that was filtered out: the notes at most n links away from
\* the source over the notes not filtered out do not hold p
RECURSIVE WithinOverKept(_, _)
WithinOverKept(W, n) ==
    IF n = 0 THEN W
    ELSE WithinOverKept(W \cup LinkedFrom({q \in W : ~FilteredOut(q)}), n - 1)

OnlyThroughFilteredOut(p) == p \notin WithinOverKept({activeFile}, maxDepth)

\* C25: the links of the source are enumerated at depth 1 and the links of
\* every markdown note taken off the queue above maxDepth are enumerated one
\* level deeper, whatever the filter said and whether the read threw; so at
\* the end of a traversal that the safety break did not cut, every readable
\* note within maxDepth that passes the filters has its content in the text,
\* also when each path to it goes through notes that were filtered out.
C25_EdgesWhateverTheOutcome ==
    /\ pc \notin {"idle", "returned", "source", "links"} => LinksEnqueuedFrom(activeFile, 0)
    /\ \A i \in DOMAIN dequeued :
          (fileKind[dequeued[i].path] = "md" /\ dequeued[i].depth < maxDepth) =>
              LinksEnqueuedFrom(dequeued[i].path, dequeued[i].depth)
    /\ (TraversalOver /\ queue = << >>) =>
          \A p \in Paths :
             ( /\ Distance(p) \in 1..maxDepth
               /\ fileKind[p] = "md"
               /\ passesFilters(fileCache[p], settings)
               /\ p \notin unreadable ) => ContentPieces(p) # {}

\* the source was skipped, the note it links to was filtered out or could
\* not be read, and a note reached only through that one has its content in
\* the text
C25_Witness ==
    /\ TraversalOver
    /\ FilteredOut(activeFile)
    /\ \E i \in DOMAIN dequeued, p \in Paths :
          /\ FilteredOut(dequeued[i].path) \/ ReadFailed(dequeued[i].path)
          /\ dequeued[i].path \in Range(expanded)
          /\ p \in Range(resolvedLinks[dequeued[i].path])
          /\ OnlyThroughFilteredOut(p)
          /\ ContentPiecesTitled(p, {"Linked Note"}) # {}

(* ------------------------------------------------------------------------ *)
(* C26                                                                      *)
(* ------------------------------------------------------------------------ *)

SkippedSections ==
    { i \in DOMAIN content : content[i].kind = "note" /\ content[i].body = "skipped" }

SourceProcessed == pc \notin {"idle", "returned", "source"}

\* the pieces of the text about the file p
PiecesAbout(p) == { i \in DOMAIN content : content[i].kind = "note" /\ content[i].path = p }

\* the step takes an entry off the queue whose note fails the filters
DequeuesFailing ==
    /\ Len(dequeued') = Len(dequeued) + 1
    /\ ~passesFilters(fileCache[dequeued'[Len(dequeued')].path], settings)

SkippedOnlyForSource ==
    /\ SkippedSections \subseteq {2}
    /\ \A i \in SkippedSections : content[i] = NotePiece("Source Note", activeFile, 0, "skipped")
    /\ SourceProcessed =>
          IF passesFilters(fileCache[activeFile], settings)
          THEN SkippedSections = {}
          ELSE /\ SkippedSections = {2}
               /\ \A i \in PiecesAbout(activeFile) :
                     content[i].title \in TraversalTitles => i = 2
    /\ \A i \in LinkedSections :
          /\ passesFilters(fileCache[content[i].path], settings)
          /\ content[i].body \in {"content", "error"}
    /\ \A i \in DOMAIN dequeued :
          ~passesFilters(fileCache[dequeued[i].path], settings) =>
              \A k \in PiecesAbout(dequeued[i].path) :
                  content[k].title \notin TraversalTitles

\* C26: a source that fails the filters has the skipped line as its one
\* section of the traversal and no content there; a linked note that fails
\* the filters leaves the text as it was, so every Linked Note section is
\* the content or the read-error line of a note that passes the filters.
C26_SkippedLineForSourceOnly ==
    /\ [] SkippedOnlyForSource
    /\ [][DequeuesFailing => content' = content]_vars

\* the source was skipped, and of two linked notes taken off the queue one
\* failed the filters and the other has a section
C26_Witness ==
    /\ TraversalOver
    /\ SkippedSections = {2}
    /\ \E i, j \in DOMAIN dequeued :
          /\ FilteredOut(dequeued[i].path)
          /\ PiecesAbout(dequeued[i].path) = {}
          /\ PiecesAbout(dequeued[j].path) # {}

(* ------------------------------------------------------------------------ *)
(* C27                                                                      *)
(* ------------------------------------------------------------------------ *)

\* the step takes an entry off the queue that is no markdown file
DequeuesNonMarkdown ==
    /\ Len(dequeued') = Len(dequeued) + 1
    /\ fileKind[dequeued'[Len(dequeued')].path] # "md"

\* nothing but the queue and the loop counters changes, and the loop goes on
DiscardedSilently ==
    /\ content' = content
    /\ contentIncludedPaths' = contentIncludedPaths
    /\ includedNotesCount' = includedNotesCount
    /\ traversalVisitedPaths' = traversalVisitedPaths
    /\ notices' = notices
    /\ evaluated' = evaluated
    /\ reads' = reads
    /\ expanded' = expanded
    /\ queue' = Tail(queue)
    /\ pc' = "bfs"

\* C27: taking a path off the queue that resolves to nothing or to a file
\* that is not markdown changes neither the text nor contentIncludedPaths
\* nor includedNotesCount, shows no Notice, calls no filter and no read, and
\* leaves the loop at the next entry of the queue; such a path never has a
\* section and is never in contentIncludedPaths.
C27_NonMarkdownDiscarded ==
    /\ [] (\A p \in Paths :
              fileKind[p] # "md" => (PiecesAbout(p) = {} /\ p \notin contentIncludedPaths))
    /\ [][DequeuesNonMarkdown => DiscardedSilently]_vars

\* a path that resolves to nothing and a file that is not markdown were
\* taken off the queue, and the note after them got its section
C27_Witness ==
    \E i, j, k \in DOMAIN dequeued :
        /\ i < k /\ j < k
        /\ fileKind[dequeued[i].path] = "none"
        /\ fileKind[dequeued[j].path] = "other"
        /\ fileKind[dequeued[k].path] = "md"
        /\ PiecesAbout(dequeued[k].path) # {}

(* ------------------------------------------------------------------------ *)
(* C28                                                                      *)
(* ------------------------------------------------------------------------ *)

PlaceholderLines == { i \in DOMAIN content : content[i].kind = "placeholder" }

\* the Daily Note sections that hold the content of their note
DailyContentSections == { i \in DailySections : content[i].body = "content" }

\* the for loop over the daily notes and the test after it are done
DailyChannelOver == settings.includeRecentDailyNotes /\ pc \in {"summary", "output", "done"}

\* C28: with the setting on and the daily channel done, the text holds the
\* "no recent daily notes" line, once and after the heading and every Daily
\* Note section, if no Daily Note section holds content, and no such line if
\* one does; before that, and with the setting off, it holds no such line.
C28_PlaceholderIffNoneAdded ==
    IF DailyChannelOver
    THEN IF DailyContentSections = {}
         THEN /\ Cardinality(PlaceholderLines) = 1
              /\ \A i \in PlaceholderLines :
                    /\ content[i] = NoDailyPiece
                    /\ \A k \in PiecesOfPart(4) : k <= i
                    /\ content[i - 1].title \in {"Recent Daily Notes", "Daily Note"}
         ELSE PlaceholderLines = {}
    ELSE PlaceholderLines = {}

\* two candidates, one already included by the traversal and one failing the
\* privacy filter: nothing was added and the line is there
C28_Witness ==
    /\ DailyChannelOver
    /\ PlaceholderLines # {}
    /\ \E p, q \in DailyCandidates :
          /\ ContentPiecesTitled(p, {"Linked Note"}) # {}
          /\ \E e \in evaluated :
                e.path = q /\ e.filter = "passesPrivacyFilter" /\ ~e.result

(* ------------------------------------------------------------------------ *)
(* C29                                                                      *)
(* ------------------------------------------------------------------------ *)

\* C29: the text that processAndAddNoteContent puts in a section, the read
\* text after truncateContentAfterFirstSeparator and removeWikiLinks, has no
\* white space at its start and none at its end.
C29_CleanedContentTrimmed ==
    Cleaned => cleanedContent = trim(cleanedContent)

\* What holds: the text is trimmed before the links are flattened, so white
\* space is at an end of the cleaned text only where the truncated text has
\* a link there.
C29_TrimmedBeforeLinks ==
    /\ Truncated => truncatedContent = trim(truncatedContent)
    /\ (Cleaned /\ cleanedContent # trim(cleanedContent)) =>
          \/ startsWith(truncatedContent, <<"[", "[">>)
          \/ /\ Len(truncatedContent) >= 2
             /\ substring(truncatedContent, Len(truncatedContent) - 2) = <<"]", "]">>

(* ------------------------------------------------------------------------ *)
(* C30                                                                      *)
(* ------------------------------------------------------------------------ *)

\* how far an invocation has come: the statement it stands at, the passes of
\* the while loop made and the daily notes left to the for loop
PositionOf(f) == << f.pc, f.iteration, Len(f.dailyNotesToProcess) >>

\* the frontier, the visited set, the inclusion record, the counters and the
\* accumulator of an invocation
LocalsOf(f) ==
    [queue |-> f.queue, traversalVisitedPaths |-> f.traversalVisitedPaths,
     contentIncludedPaths |-> f.contentIncludedPaths,
     includedNotesCount |-> f.includedNotesCount,
     processedLinkCandidates |-> f.processedLinkCandidates,
     dailyNotesAddedCount |-> f.dailyNotesAddedCount,
     dailyNotesToProcess |-> f.dailyNotesToProcess,
     maxDepth |-> f.maxDepth, content |-> f.content]

\* two invocations are under way or over
TwoInvocations == finished # << >> /\ parked # NoFrame

\* C30: of two invocations of the command that take turns at their awaits on
\* one vault and one settings object, each has its own queue, visited set,
\* inclusion set, counters and text: whenever the two stand at the same
\* point they hold the same values, whatever the other one has done in
\* between, and each ends with the text of the run that was made alone.
C30_InvocationsDoNotInterfere ==
    TwoInvocations =>
        /\ PositionOf(Frame) = PositionOf(parked) => LocalsOf(Frame) = LocalsOf(parked)
        /\ pc = "done" => content = finished[1]
        /\ parked.pc = "done" => parked.content = finished[1]

\* one invocation has ended with the text of the run made alone while the
\* other is suspended in the middle of its traversal, a note included and
\* entries waiting in its queue
C30_Witness ==
    /\ TwoInvocations
    /\ pc = "done"
    /\ content = finished[1]
    /\ Cardinality(ContentIncluded) >= 3
    /\ parked.pc = "bfs"
    /\ parked.iteration >= 1
    /\ parked.queue # << >>
    /\ parked.contentIncludedPaths # {}
    /\ parked.contentIncludedPaths # contentIncludedPaths

(* ------------------------------------------------------------------------ *)
(* The settings: loadSettings, saveSettings and the settings tab            *)
(* ------------------------------------------------------------------------ *)

\* A number with a fractional part: v + 1/2.  typeof gives "number".
JSFraction(n) == [t |-> "fraction", v |-> n]

\* an array of values
JSArray(elements) == [t |-> "array", v |-> elements]

TRUE_TEXT == <<"t","r","u","e">>
FALSE_TEXT == <<"f","a","l","s","e">>

digitValue(c) == (CHOOSE k \in DOMAIN Digits : Digits[k] = c) - 1

allDigits(s) == s # << >> /\ \A i \in DOMAIN s : isDigit(s[i])

\* the value of a string of digits
RECURSIVE digitsValue(_, _)
digitsValue(s, acc) ==
    IF s = << >> THEN acc ELSE digitsValue(Tail(s), 10 * acc + digitValue(Head(s)))

\* the longest prefix of s made of digits
RECURSIVE digitPrefix(_)
digitPrefix(s) ==
    IF s # << >> /\ isDigit(Head(s)) THEN << Head(s) >> \o digitPrefix(Tail(s)) ELSE << >>

\* Number(text), for the texts made of white space, a sign and digits
stringToNumber(s) ==
    LET t == trim(s)
    IN  IF t = << >> THEN JSNumber(0)
        ELSE IF allDigits(t) THEN JSNumber(digitsValue(t, 0))
        ELSE IF Head(t) = "-" /\ allDigits(Tail(t)) THEN JSNumber(0 - digitsValue(Tail(t), 0))
        ELSE JSNaN

\* the conversion to a number that Math.floor makes of its argument
toNumber(x) ==
    IF x.t \in {"number", "fraction", "NaN"} THEN x
    ELSE IF x.t = "null" THEN JSNumber(0)
    ELSE IF x.t = "boolean" THEN JSNumber(IF x.v = TRUE_TEXT THEN 1 ELSE 0)
    ELSE IF x.t = "string" THEN stringToNumber(x.v)
    ELSE JSNaN

\* Math.floor
mathFloor(x) ==
    LET n == toNumber(x) IN IF n.t = "fraction" THEN JSNumber(n.v) ELSE n

\* Math.max(1, Math.floor(x) || 1) keeping everything above 0
clamp_ZeroKept(x) ==
    LET floored == mathFloor(x)
        orOne == IF floored.t = "NaN" THEN JSNumber(1) ELSE floored
    IN  JSNumber(IF orOne.v < 0 THEN 1 ELSE orOne.v)

\* Math.max(1, Math.floor(x) || 1)
clamp(x) ==
    LET floored == mathFloor(x)
        orOne == IF floored.t = "NaN" \/ floored.v = 0 THEN JSNumber(1) ELSE floored
    IN  JSNumber(IF orOne.v < 1 THEN 1 ELSE orOne.v)

\* !!x
toBoolean(x) ==
    IF x.t = "boolean" THEN x.v = TRUE_TEXT
    ELSE IF x.t \in {"undefined", "null", "NaN"} THEN FALSE
    ELSE IF x.t = "number" THEN x.v # 0
    ELSE IF x.t = "string" THEN x.v # << >>
    ELSE TRUE

\* (x || []): the elements of the array, none for a value that is not there
elementsOrNone(x) == IF x.t = "array" THEN x.v ELSE << >>

\* typeof p === "string" ? p.trim().toLowerCase() : ""
normalizeLevel(p) == IF p.t = "string" THEN toLowerCase(trim(p.v)) ELSE << >>

\* String.prototype.replace(/^#/, "")
replaceLeadingMarker(s) == IF s # << >> /\ Head(s) = "#" THEN Tail(s) ELSE s

\* typeof t === "string" ? t.trim().toLowerCase().replace(/^#/, "") : ""
normalizeTag(t) ==
    IF t.t = "string" THEN replaceLeadingMarker(toLowerCase(trim(t.v))) ELSE << >>

\* The statements loadSettings and saveSettings share: from the values of the
\* settings object to the clamped and normalized ones.  The two arrays are
\* kept as the sets of their elements, the way the filters use them.
normalizeSettings(raw) ==
    [includePrivacyLevels |->
         { normalizeLevel(elementsOrNone(raw.includePrivacyLevels)[i]) :
              i \in DOMAIN elementsOrNone(raw.includePrivacyLevels) } \ {<< >>},
     targetTags |->
         { normalizeTag(elementsOrNone(raw.targetTags)[i]) :
              i \in DOMAIN elementsOrNone(raw.targetTags) } \ {<< >>},
     excludedTags |-> {},
     linkDepth |-> clamp(raw.linkDepth),
     includeRecentDailyNotes |-> toBoolean(raw.includeRecentDailyNotes),
     numberOfRecentDays |-> clamp(raw.numberOfRecentDays).v]

\* the elements of a finite set of strings as an array, in some order
RECURSIVE arrayOf(_)
arrayOf(S) ==
    IF S = {} THEN << >>
    ELSE LET x == CHOOSE y \in S : TRUE IN << JSString(x) >> \o arrayOf(S \ {x})

\* the settings object as the values its fields hold
valuesOf(s) ==
    [includePrivacyLevels |-> JSArray(arrayOf(s.includePrivacyLevels)),
     targetTags |-> JSArray(arrayOf(s.targetTags)),
     linkDepth |-> s.linkDepth,
     includeRecentDailyNotes |-> JSBoolean(IF s.includeRecentDailyNotes
                                           THEN TRUE_TEXT ELSE FALSE_TEXT),
     numberOfRecentDays |-> JSNumber(s.numberOfRecentDays)]

\* DEFAULT_SETTINGS
DEFAULT_SETTINGS ==
    [includePrivacyLevels |-> JSArray(<< JSString(PUBLIC) >>),
     targetTags |-> JSArray(<< >>),
     linkDepth |-> JSNumber(1),
     includeRecentDailyNotes |-> JSBoolean(FALSE_TEXT),
     numberOfRecentDays |-> JSNumber(3)]

\* Object.assign({}, DEFAULT_SETTINGS, data): a key that data does not hold
\* keeps its default
assignDefaults(data) ==
    [k \in DOMAIN DEFAULT_SETTINGS |->
        IF data[k].t = "undefined" THEN DEFAULT_SETTINGS[k] ELSE data[k]]

loadSettings(data) == normalizeSettings(assignDefaults(data))

saveSettings(s) == normalizeSettings(valuesOf(s))


\* parseInt(text, 10) of a trimmed text: an optional sign and the digits that
\* follow it, NaN if there is none
parseInt(s) ==
    LET negative == s # << >> /\ Head(s) = "-"
        digits == digitPrefix(IF negative THEN Tail(s) ELSE s)
    IN  IF digits = << >> THEN JSNaN
        ELSE JSNumber(IF negative THEN 0 - digitsValue(digits, 0) ELSE digitsValue(digits, 0))

\* what data.json may hold for a count: nothing, null, numbers below, at and
\* above 1 with and without a fractional part, texts and a boolean
StoredCounts ==
    { JSUndefined, JSNull, JSNumber(-1), JSNumber(0), JSNumber(2),
      JSFraction(-1), JSFraction(0), JSFraction(2),
      JSString(<<"2">>), JSString(<<"x">>), JSString(<< >>), JSBoolean(TRUE_TEXT) }

StoredLevels ==
    { JSUndefined,
      JSArray(<< JSString(<<" ","P","u","b","l","i","c"," ">>), JSNumber(1), JSString(<<" ">>) >>),
      JSArray(<< JSString(PUBLIC), JSString(NONE) >>) }

StoredTags ==
    { JSUndefined,
      JSArray(<< JSString(<<"#","W","I","P">>) >>),
      JSArray(<< JSString(<<"#","#","w","i","p">>) >>) }

StoredSwitches == { JSUndefined, JSBoolean(TRUE_TEXT), JSNumber(0), JSString(<<"x">>) }

\* the objects loadData may return
StoredData ==
    [includePrivacyLevels : StoredLevels, targetTags : StoredTags, linkDepth : StoredCounts,
     includeRecentDailyNotes : StoredSwitches, numberOfRecentDays : StoredCounts]

\* onload: loadSettings
LoadSettings ==
    /\ pc = "unloaded"
    /\ \E data \in StoredData : settings' = loadSettings(data)
    /\ pc' = "idle"
    /\ UNCHANGED << activeFile, fileKind, fileCache, resolvedLinks, unreadable, helpers,
                    invocations, preview, maxDepth, content, contentIncludedPaths,
                    traversalVisitedPaths, includedNotesCount, iteration, queue,
                    processedLinkCandidates, dailyNotesToProcess, dailyNotesAddedCount,
                    notices, outputFile, loggedError, evaluated, reads, dequeued, expanded >>

\* a run is suspended at an await and the settings are still those it began with
SuspendedUnchanged ==
    /\ pc \in {"source", "links", "bfs", "daily", "dailyLoop", "summary", "output"}
    /\ content[1].printed = headerSettings
    /\ settings.linkDepth = JSNumber(maxDepth)

\* The settings tab is used before a run, or once while a run is suspended.
TabUsable == pc = "idle" \/ SuspendedUnchanged

\* what no handler of the settings tab touches
tabFrame == << activeFile, fileKind, fileCache, resolvedLinks, unreadable, helpers,
               invocations, preview, run >>

\* the texts typed in the privacy levels field, split at the commas
LevelInputs ==
    { << PUBLIC >>, << <<" ","P","u","b","l","i","c">>, <<" ">>, NONE >> }

\* the texts typed in the required tags field, split at the commas
TagInputs == { << >>, << <<" ","#","W","i","p">> >> }

\* the texts typed in the two number fields
CountInputs ==
    { << >>, <<" ">>, <<"x">>, <<"0">>, <<"-","1">>, <<"1">>, <<"2","x">>, <<" ","2"," ">> }

\* Include Privacy Levels: onChange
ChangePrivacyLevels ==
    /\ TabUsable
    /\ \E parts \in LevelInputs :
          settings' = saveSettings(
              [settings EXCEPT !.includePrivacyLevels =
                  { toLowerCase(trim(parts[i])) : i \in DOMAIN parts } \ {<< >>}])
    /\ UNCHANGED tabFrame

\* Required Tags: onChange
ChangeTargetTags ==
    /\ TabUsable
    /\ \E parts \in TagInputs :
          settings' = saveSettings(
              [settings EXCEPT !.targetTags =
                  { replaceLeadingMarker(toLowerCase(trim(parts[i]))) : i \in DOMAIN parts }
                      \ {<< >>}])
    /\ UNCHANGED tabFrame

\* isNaN(n) || n < 1 of the two number handlers
rejectedCount(n) == n.t = "NaN" \/ n.v < 1

\* Link Depth: onChange
ChangeLinkDepth ==
    /\ TabUsable
    /\ \E value \in CountInputs :
          LET depth == parseInt(trim(value))
          IN  IF trim(value) = << >> \/ rejectedCount(depth) \/ settings.linkDepth = depth
              THEN settings' = settings
              ELSE settings' = saveSettings([settings EXCEPT !.linkDepth = depth])
    /\ UNCHANGED tabFrame

\* Include Recent Daily Notes: onChange
ToggleRecentDailyNotes ==
    /\ TabUsable
    /\ \E value \in BOOLEAN :
          settings' = saveSettings([settings EXCEPT !.includeRecentDailyNotes = value])
    /\ UNCHANGED tabFrame

\* Number of recent days: onChange
ChangeRecentDays ==
    /\ TabUsable
    /\ \E value \in CountInputs :
          LET days == parseInt(trim(value))
          IN  IF trim(value) = << >> \/ rejectedCount(days)
                     \/ settings.numberOfRecentDays = days.v
              THEN settings' = settings
              ELSE settings' = saveSettings([settings EXCEPT !.numberOfRecentDays = days.v])
    /\ UNCHANGED tabFrame

NextSettings ==
    \/ LoadSettings
    \/ ChangePrivacyLevels
    \/ ChangeTargetTags
    \/ ChangeLinkDepth
    \/ ToggleRecentDailyNotes
    \/ ChangeRecentDays
    \/ Start
    \/ ProcessActiveNote
    \/ InitQueue
    \/ BFSLoop
    \/ DailySelect
    \/ DailyLoop
    \/ Summary
    \/ CreateOutputFile

\* The plugin before onload, in a vault where the source (public, #Wip) links
\* to B (no privacy key, #Wip), B links to C (public, #Wip), and one public
\* daily note exists.
InitSettings ==
    /\ activeFile = "A.md"
    /\ fileKind = KindsOf([p \in {"A.md", "B.md", "C.md", "2024-01-02.md"} |-> "md"])
    /\ resolvedLinks = LinksOf("A.md" :> <<"B.md">> @@ "B.md" :> <<"C.md">>)
    /\ fileCache = CachesOf("A.md" :> PublicNote @@ "B.md" :> Cache(JSUndefined, {RAW_WIP})
                            @@ "C.md" :> PublicNote
                            @@ "2024-01-02.md" :> Cache(JSString(PUBLIC), {RAW_DAILY}))
    /\ unreadable = {}
    /\ settings = normalizeSettings(DEFAULT_SETTINGS)
    /\ pc = "unloaded"
    /\ maxDepth = 0
    /\ content = << >>
    /\ contentIncludedPaths = {}
    /\ traversalVisitedPaths = {}
    /\ includedNotesCount = 0
    /\ iteration = 0
    /\ queue = << >>
    /\ processedLinkCandidates = 0
    /\ dailyNotesToProcess = << >>
    /\ dailyNotesAddedCount = 0
    /\ notices = << >>
    /\ outputFile = << >>
    /\ loggedError = NoError
    /\ evaluated = {}
    /\ reads = << >>
    /\ dequeued = << >>
    /\ expanded = << >>
    /\ HelpersIdle
    /\ OneInvocation

SpecSettings == InitSettings /\ [][NextSettings]_vars

(* ------------------------------------------------------------------------ *)
(* C31                                                                      *)
(* ------------------------------------------------------------------------ *)

RunBegun == pc \in {"source", "links", "bfs", "daily", "dailyLoop", "summary", "output", "done"}

\* the settings under which the run began, as its header prints them
SettingsPrinted ==
    [settings EXCEPT !.includePrivacyLevels = content[1].printed.includePrivacyLevels,
                     !.targetTags = content[1].printed.targetTags,
                     !.includeRecentDailyNotes = content[1].printed.includeRecentDailyNotes]

\* what the filter of that name makes of the file under the settings s
FilterResult(filter, p, s) ==
    IF filter = "passesFilters" THEN passesFilters(fileCache[p], s)
    ELSE passesPrivacyFilter(fileCache[p], s)

\* C31: every filter call of a run gave what the filter gives under the
\* privacy levels and tags printed in the header of that run, the daily
\* notes part is there exactly if the header says so and with the number of
\* days the header says, and the depth of the run is the depth of the
\* header, also when the settings tab was used while the run was suspended.
C31_ConfigurationFixedAtStart ==
    RunBegun =>
        /\ maxDepth = content[1].depth
        /\ \A e \in evaluated : e.result = FilterResult(e.filter, e.path, SettingsPrinted)
        /\ pc \in {"dailyLoop", "summary", "output", "done"} =>
              /\ (HeadingsTitled("Recent Daily Notes") # {}) =
                     content[1].printed.includeRecentDailyNotes
              /\ \A h \in HeadingsTitled("Recent Daily Notes") :
                     content[h].depth = content[1].printed.numberOfRecentDays

\* What holds: the depth is read once (const maxDepth), so the traversal
\* keeps the depth of the header whatever is typed in the depth field.
C31_DepthFixedAtStart ==
    RunBegun =>
        /\ maxDepth = content[1].depth
        /\ \A i \in DOMAIN dequeued : dequeued[i].depth <= content[1].depth
        /\ \A i \in LinkedSections : content[i].depth <= content[1].depth


(* ------------------------------------------------------------------------ *)
(* C32: each document's content is read at most once, after its filter      *)
(* ------------------------------------------------------------------------ *)

\* the calls of vault.read that returned the content of the note
ContentReads == SelectSeq(reads, LAMBDA p : p \notin unreadable)

\* the calls of vault.read that threw
FailedReads == SelectSeq(reads, LAMBDA p : p \in unreadable)

\* no path occurs twice in the sequence
NoRepeat(s) == \A i, j \in 1..Len(s) : s[i] = s[j] => i = j

\* the filter the channel at work calls before it reads
FilterOfChannel == IF pc = "dailyLoop" THEN "passesPrivacyFilter" ELSE "passesFilters"

\* a step that calls vault.read does so on a path for which the filter of
\* its channel was called in that step and returned true
ReadAfterFilter ==
    reads' # reads =>
        /\ Len(reads') = Len(reads) + 1
        /\ [path |-> reads'[Len(reads')], filter |-> FilterOfChannel, result |-> TRUE]
               \in evaluated'

C32_SecondAttempt == ~NoRepeat(FailedReads)


(* ------------------------------------------------------------------------ *)
(* C33: a dequeued note is never one already included                        *)
(* ------------------------------------------------------------------------ *)

\* the step takes an entry off the queue that resolves to a markdown file
DequeuesNote == dequeued' # dequeued /\ ~notMarkdownFile(Head(queue).path)

\* the early return of processAndAddNoteContent: the note is in the record
alreadyIncluded(path) == path \in contentIncludedPaths

\* the step of the traversal adds one to includedNotesCount
CountsOne == pc \in {"source", "bfs"} /\ includedNotesCount' # includedNotesCount

\* C33: whenever the loop of the traversal takes a note off the queue, the
\* note is not yet in contentIncludedPaths, so processAndAddNoteContent never
\* returns early for a linked note; and a step of the traversal that adds to
\* includedNotesCount adds one, for a note that was not included before.
C33_DequeuedNotYetIncluded ==
    [][/\ DequeuesNote => ~alreadyIncluded(Head(queue).path)
       /\ CountsOne =>
            /\ includedNotesCount' = includedNotesCount + 1
            /\ \E p \in Paths :
                  /\ ~alreadyIncluded(p)
                  /\ contentIncludedPaths' = contentIncludedPaths \cup {p}]_vars

\* the traversal has dequeued and included a note that links back to the
\* included source, and the queue is empty
C33_Witness ==
    /\ pc = "daily"
    /\ activeFile \in contentIncludedPaths
    /\ \E i \in 1..Len(expanded) :
          /\ expanded[i] # activeFile
          /\ expanded[i] \in contentIncludedPaths
          /\ \E k \in 1..Len(resolvedLinks[expanded[i]]) :
                resolvedLinks[expanded[i]][k] = activeFile
    /\ includedNotesCount >= 2


(* ------------------------------------------------------------------------ *)
(* C34: the counter, the inclusion record and the emitted content agree     *)
(* ------------------------------------------------------------------------ *)

\* the notes whose content, not a skipped or error line, is in the text
EmittedPaths == { p \in Paths : ContentPieces(p) # {} }

\* the counter and the record agree with each other and with the text
CounterMatchesRecord ==
    /\ includedNotesCount = Cardinality(contentIncludedPaths)
    /\ contentIncludedPaths = EmittedPaths

\* C34: after the step of the source, after every iteration of the loop of
\* the traversal and after every step of the daily notes, includedNotesCount
\* is the number of paths in contentIncludedPaths, contentIncludedPaths holds
\* exactly the notes whose content has been appended to the text, and no
\* step takes a path out of contentIncludedPaths.
C34_CounterMatchesRecord ==
    /\ [](CounterMatchesRecord)
    /\ [][contentIncludedPaths \subseteq contentIncludedPaths']_vars

\* both channels are over: the traversal has included the source and a
\* linked note, the daily loop has included a daily note, and the text also
\* holds a section that is not content
C34_Witness ==
    /\ pc = "summary"
    /\ includedNotesCount >= 3
    /\ ContentPiecesTitled(activeFile, {"Source Note"}) # {}
    /\ \E p \in Paths : ContentPiecesTitled(p, {"Linked Note"}) # {}
    /\ \E p \in Paths : ContentPiecesTitled(p, {"Daily Note"}) # {}

\* a section without content stands in the text next to included notes
C34_WitnessPlaceholder ==
    /\ pc = "summary"
    /\ includedNotesCount >= 1
    /\ \E i \in DOMAIN content : content[i].kind = "note" /\ content[i].body # "content"


(* ------------------------------------------------------------------------ *)
(* getPreviewNotes and the preview of the settings tab                      *)
(* ------------------------------------------------------------------------ *)

\* if (iterations > 5000)
PreviewCeiling == 5000

\* the comparison of previewList.sort: by depth, then by basename
previewBefore(a, b) ==
    IF a.depth # b.depth THEN a.depth < b.depth ELSE localeLess(a.basename, b.basename)

\* Array.prototype.sort with that comparison: a stable insertion
RECURSIVE insertSorted(_, _)
insertSorted(sorted, x) ==
    IF sorted = << >> THEN << x >>
    ELSE IF previewBefore(x, Head(sorted)) THEN << x >> \o sorted
    ELSE << Head(sorted) >> \o insertSorted(Tail(sorted), x)

RECURSIVE sortPreview(_, _)
sortPreview(list, sorted) ==
    IF list = << >> THEN sorted
    ELSE sortPreview(Tail(list), insertSorted(sorted, Head(list)))

\* { path, basename, depth, passes } as getPreviewNotes pushes it
previewEntry(path, depth) ==
    [path |-> path, basename |-> basenameOf(path), depth |-> depth,
     passes |-> passesFilters(fileCache[path], settings)]

\* depth < maxDepth going one level deeper than the setting
previewDepthTest_AtMaxDepth(depth, limit) ==
    LET n == toNumber(limit)
    IN  n.t \in {"number", "fraction"} /\ depth <= n.v

\* depth < maxDepth, maxDepth being this.settings.linkDepth as it is
previewDepthTest(depth, limit) ==
    LET n == toNumber(limit)
    IN  \/ n.t = "number" /\ depth < n.v
        \/ n.t = "fraction" /\ depth <= n.v

\* the while loop of getPreviewNotes
RECURSIVE previewLoop(_, _, _, _)
previewLoop(q, visited, list, iterations) ==
    IF q = << >> THEN list
    ELSE IF iterations + 1 > PreviewCeiling THEN list
    ELSE LET currentPath == Head(q).path
             depth == Head(q).depth
         IN  IF notMarkdownFile(currentPath)
             THEN previewLoop(Tail(q), visited, list, iterations + 1)
             ELSE LET e == IF previewDepthTest(depth, settings.linkDepth)
                           THEN enqueueLinks(resolvedLinks[currentPath], depth + 1,
                                             Tail(q), visited)
                           ELSE [queue |-> Tail(q), visited |-> visited]
                  IN  previewLoop(e.queue, e.visited,
                                  Append(list, previewEntry(currentPath, depth)),
                                  iterations + 1)

getPreviewNotes(file) ==
    LET e == enqueueLinks(resolvedLinks[file], 1, << >>, {file})
    IN  sortPreview(previewLoop(e.queue, e.visited, << previewEntry(file, 0) >>, 0), << >>)

\* renderPreview: the button of the settings tab, while no run is under way
\* or at any await of a run
RenderPreview ==
    /\ previewList = NoPreview
    /\ IF activeFile = NoFile \/ fileKind[activeFile] # "md"
       THEN previewList' = << >>
       ELSE previewList' = getPreviewNotes(activeFile)
    /\ UNCHANGED << host, helpers, invocations, run >>

NextPreview ==
    \/ Start
    \/ ProcessActiveNote
    \/ InitQueue
    \/ BFSLoop
    \/ DailySelect
    \/ DailyLoop
    \/ Summary
    \/ CreateOutputFile
    \/ RenderPreview

SpecPreview == Init /\ [][NextPreview]_vars

(* ------------------------------------------------------------------------ *)
(* C35: the preview and the run agree on the traversal                      *)
(* ------------------------------------------------------------------------ *)

\* neither loop was cut by its safety break
BelowBothCeilings == iteration <= SafetyCeiling /\ Len(previewList) <= PreviewCeiling

\* the notes the run processed in its traversal, with their depths
VisitedByRun ==
    { [path |-> activeFile, depth |-> 0] }
        \cup { dequeued[i] : i \in { j \in DOMAIN dequeued : ~notMarkdownFile(dequeued[j].path) } }

\* the notes of the preview, with their depths
VisitedByPreview ==
    { [path |-> previewList[i].path, depth |-> previewList[i].depth] :
          i \in DOMAIN previewList }

\* the sections the traversal wrote about the note with the given body
TraversalSections(p, body) ==
    { i \in DOMAIN content :
        /\ content[i].kind = "note"
        /\ content[i].path = p
        /\ content[i].title \in {"Source Note", "Linked Note"}
        /\ content[i].body = body }

\* the run included the content of the note in its traversal, or tried to
\* and the read threw
IncludedIfReadable(p) ==
    IF p \in unreadable THEN TraversalSections(p, "error") # {}
    ELSE TraversalSections(p, "content") # {}

\* C35: for the same active note, vault and settings, and with neither
\* safety break reached, getPreviewNotes lists the notes that the traversal
\* of createContextFile processes, each at the same depth, and marks a note
\* as passing exactly when the traversal includes its content, or would if
\* the read of the note did not throw.
C35_PreviewMatchesRun ==
    (previewList # NoPreview /\ TraversalOver /\ BelowBothCeilings) =>
        /\ VisitedByPreview = VisitedByRun
        /\ \A i \in DOMAIN previewList :
              previewList[i].passes <=> IncludedIfReadable(previewList[i].path)

\* a preview and a finished traversal of a vault with notes at depth 2, one
\* note marked as passing and one as failing, one of those passing unreadable
C35_Witness ==
    /\ previewList # NoPreview
    /\ TraversalOver
    /\ \E i, j, k \in DOMAIN previewList :
          /\ previewList[i].depth >= 2
          /\ previewList[j].passes
          /\ ~previewList[k].passes

\* a note of the preview whose read throws in the run
C35_WitnessUnreadable ==
    /\ previewList # NoPreview
    /\ TraversalOver
    /\ \E i \in DOMAIN previewList :
          previewList[i].passes /\ previewList[i].path \in unreadable

\* the preview is sorted by depth
PreviewSorted ==
    previewList # NoPreview =>
        \A i, j \in DOMAIN previewList : i < j => ~previewBefore(previewList[j], previewList[i])


(* ------------------------------------------------------------------------ *)
(* C36: what loadSettings and saveSettings leave in the settings            *)
(* ------------------------------------------------------------------------ *)

\* loadSettings has run, and saveSettings after every change since
SettingsNormalized == pc # "unloaded"

\* linkDepth and numberOfRecentDays are integers of at least 1
CountsClamped ==
    /\ settings.linkDepth.t = "number"
    /\ settings.linkDepth.v >= 1
    /\ settings.numberOfRecentDays \in Nat
    /\ settings.numberOfRecentDays >= 1

\* the run did not take the invalid-depth return of createContextFile
NeverRejectedForDepth ==
    \A i \in DOMAIN notices : notices[i] # "Error: Invalid Link Depth setting"

\* C36: after every loadSettings and every saveSettings, linkDepth and
\* numberOfRecentDays are integers of at least 1 whatever was stored or
\* typed, so that no run takes the invalid-depth return; and normalizing the
\* settings once more leaves them as they are.
C36_ClampedAndIdempotent ==
    SettingsNormalized =>
        /\ CountsClamped
        /\ NeverRejectedForDepth
        /\ saveSettings(settings) = settings

\* the part of C36 about the two counts and the depth check
C36_CountsClamped ==
    SettingsNormalized => CountsClamped /\ NeverRejectedForDepth

\* the stored counts were not integers of at least 1 and a run has begun
C36_WitnessClamped ==
    /\ pc = "source"
    /\ settings.linkDepth = JSNumber(1)
    /\ settings.numberOfRecentDays = 1

\* the settings hold a tag that the next saveSettings changes
C36_NotIdempotentOnTags ==
    /\ SettingsNormalized
    /\ saveSettings(settings).targetTags # settings.targetTags

====
